---- MODULE Spec2Model ----
(***************************************************************************)
(* The four cloud-function services of conversational-ai-cloudbase         *)
(* (llm-context-manager, llm-fast-reply, llm-tools, llm-rag): the session  *)
(* store (ContextManager), the request entry point (main) and the SSE      *)
(* relay (handleStreamingRequest) of each service.                         *)
(*                                                                         *)
(* Text is modelled as a sequence of tokens, so that string concatenation  *)
(* is \o and the empty string is << >>.  JavaScript objects that are       *)
(* shared by reference (the context objects of the store) live in a heap   *)
(* of object identifiers.                                                  *)
(***************************************************************************)
EXTENDS Integers, Sequences, FiniteSets, TLC

VARIABLES
    config,     \* the deployment: which service runs, and its environment settings
    now,        \* Date.now(), in clock units
    contexts,   \* ContextManager.contexts: task id -> context object
    heap,       \* the live context objects { messages, lastAccessedAt }
    req,        \* the invocations of main: locals, SSE channel, provider traffic
    trimLog     \* whether the step just taken logged "exceeded max length. Trimming..."

vars == <<config, now, contexts, heap, req, trimLog>>

\* the environment settings read at startup
service == config.service
MAX_CONTEXT_MESSAGES == config.MAX_CONTEXT_MESSAGES
PROGRESSIVE_RESPONSE_enabled == config.PROGRESSIVE_RESPONSE_enabled
maxDocuments == config.maxDocuments
\* whether LLM_API_KEY is set to a non-empty value
API_KEY == config.API_KEY
\* RAG_CONFIG.enabled: process.env.USE_RAG === 'true' || true
RAG_CONFIG_enabled == (config.USE_RAG = "true") \/ TRUE

-----------------------------------------------------------------------------
(* Bounds of the model *)

\* the clock runs from 0 to MaxTime
MaxTime == 2
\* the configured values of MAX_CONTEXT_MESSAGES are 0 .. MaxConfigured
MaxConfigured == 2
\* the store is driven on histories of at most MAX_CONTEXT_MESSAGES + MaxOverflow entries
MaxOverflow == 2

\* session identifiers (x-task-id / event.taskId) in a fixed order; NoTaskId is the falsy one
TaskOrder == <<"s1", "s2">>
TaskIds == {TaskOrder[i] : i \in DOMAIN TaskOrder}
NoTaskId == "null"
\* request slots, one asynchronous invocation of main each, in a fixed order
ReqOrder == <<"r1", "r2">>
Reqs == {ReqOrder[i] : i \in DOMAIN ReqOrder}
\* no context object
NoObj == 0
\* the four services
Services == {"context-manager", "fast-reply", "tools", "rag"}
\* CONTEXT_EXPIRY_HOURS * 60 * 60 * 1000, in clock units
expiryTime == 1

-----------------------------------------------------------------------------
(* Text and messages *)

\* JavaScript null used as a message content
Null == <<"null">>
\* JavaScript truthiness of a string-or-null value
Truthy(c) == c # << >> /\ c # Null

DEFAULT_PROMPT == <<"P0">>
Message(role, content) == [role |-> role, content |-> content]
DefaultSystemMessage == Message("system", DEFAULT_PROMPT)

\* Array.prototype.slice(start) on a 1-based sequence
JSSlice(s, start) ==
    LET len == Len(s)
        k == IF start < 0 THEN (IF len + start > 0 THEN len + start ELSE 0)
             ELSE (IF start < len THEN start ELSE len)
    IN  SubSeq(s, k + 1, len)

-----------------------------------------------------------------------------
(* ContextManager *)

\* the object literal { messages: [system], createdAt, lastAccessedAt }; createdAt is
\* written here and never read, so the model does not carry it
NewContext(time) == [messages |-> <<DefaultSystemMessage>>, lastAccessedAt |-> time]

\* identifier of the next allocated object; the heap is the sequence of live objects
NewObj(hp) == Len(hp) + 1

\* getContext with a missing task id filed under the first session identifier
GetContextDefaultId(cx, hp, taskId, time) ==
    LET id == IF taskId = NoTaskId THEN TaskOrder[1] ELSE taskId
    IN  IF id \notin DOMAIN cx
        THEN [contexts |-> cx @@ (id :> NewObj(hp)), heap |-> Append(hp, NewContext(time)), ref |-> NewObj(hp)]
        ELSE [contexts |-> cx, heap |-> [hp EXCEPT ![cx[id]].lastAccessedAt = time], ref |-> cx[id]]

\* getContext that sets lastAccessedAt of every registered session
GetContextTouchingAll(cx, hp, taskId, time) ==
    IF taskId = NoTaskId
    THEN [contexts |-> cx, heap |-> Append(hp, NewContext(time)), ref |-> NewObj(hp)]
    ELSE IF taskId \notin DOMAIN cx
    THEN [contexts |-> cx @@ (taskId :> NewObj(hp)), heap |-> Append(hp, NewContext(time)), ref |-> NewObj(hp)]
    ELSE [contexts |-> cx,
          heap |-> [o \in DOMAIN hp |-> IF \E t \in DOMAIN cx : cx[t] = o THEN [hp[o] EXCEPT !.lastAccessedAt = time] ELSE hp[o]],
          ref |-> cx[taskId]]

\* getContext that leaves lastAccessedAt of a registered session as it was
GetContextNoTouch(cx, hp, taskId, time) ==
    IF taskId = NoTaskId
    THEN [contexts |-> cx, heap |-> Append(hp, NewContext(time)), ref |-> NewObj(hp)]
    ELSE IF taskId \notin DOMAIN cx
    THEN [contexts |-> cx @@ (taskId :> NewObj(hp)), heap |-> Append(hp, NewContext(time)), ref |-> NewObj(hp)]
    ELSE [contexts |-> cx, heap |-> hp, ref |-> cx[taskId]]

\* ContextManager.getContext: the new map, the new heap and the returned object
GetContext(cx, hp, taskId, time) ==
    IF taskId = NoTaskId
    THEN LET o == NewObj(hp)
         IN  [contexts |-> cx, heap |-> Append(hp, NewContext(time)), ref |-> o]
    ELSE IF taskId \notin DOMAIN cx
    THEN LET o == NewObj(hp)
         IN  [contexts |-> cx @@ (taskId :> o), heap |-> Append(hp, NewContext(time)), ref |-> o]
    ELSE [contexts |-> cx, heap |-> [hp EXCEPT ![cx[taskId]].lastAccessedAt = time], ref |-> cx[taskId]]

\* a trim that keeps the recent messages and forgets the system message
TrimRecentOnly(msgs) == IF Len(msgs) > MAX_CONTEXT_MESSAGES + 1 THEN JSSlice(msgs, -MAX_CONTEXT_MESSAGES) ELSE msgs

\* the bound enforced after a push: the system message and the recent messages
Trim(msgs) ==
    IF Len(msgs) > MAX_CONTEXT_MESSAGES + 1
    THEN <<msgs[1]>> \o JSSlice(msgs, -MAX_CONTEXT_MESSAGES)
    ELSE msgs

\* addMessage with a missing task id filed under the first session identifier
AddMessageDefaultId(cx, hp, taskId, message, time) ==
    LET g == GetContext(cx, hp, IF taskId = NoTaskId THEN TaskOrder[1] ELSE taskId, time)
        pushed == Append(g.heap[g.ref].messages, message)
    IN  [contexts |-> g.contexts, heap |-> [g.heap EXCEPT ![g.ref].messages = Trim(pushed)],
         logged |-> Len(pushed) > MAX_CONTEXT_MESSAGES + 1]

\* ContextManager.addMessage: the new map, the new heap and whether the trimming was logged
AddMessage(cx, hp, taskId, message, time) ==
    IF taskId = NoTaskId
    THEN [contexts |-> cx, heap |-> hp, logged |-> FALSE]
    ELSE LET g == GetContext(cx, hp, taskId, time)
             pushed == Append(g.heap[g.ref].messages, message)
         IN  [contexts |-> g.contexts, heap |-> [g.heap EXCEPT ![g.ref].messages = Trim(pushed)],
              logged |-> Len(pushed) > MAX_CONTEXT_MESSAGES + 1]

\* addMessage for each message of a list, in order
RECURSIVE AddMessages(_, _, _, _, _)
AddMessages(cx, hp, taskId, msgs, time) ==
    IF msgs = << >> THEN [contexts |-> cx, heap |-> hp, logged |-> FALSE]
    ELSE LET a == AddMessage(cx, hp, taskId, Head(msgs), time)
             rest == AddMessages(a.contexts, a.heap, taskId, Tail(msgs), time)
         IN  [rest EXCEPT !.logged = a.logged \/ @]

\* a sweep that also deletes the sessions whose age equals the expiry time
ExpiredAtExpiry(cx, hp, time) == {t \in DOMAIN cx : time - hp[cx[t]].lastAccessedAt >= expiryTime}

\* the sessions cleanExpiredContexts deletes
Expired(cx, hp, time) == {t \in DOMAIN cx : time - hp[cx[t]].lastAccessedAt > expiryTime}

\* The references to context objects, in a fixed order: the map's entries, then the
\* requests' contextData.
RECURSIVE Dedup(_)
Dedup(seq) ==
    IF seq = << >> THEN << >>
    ELSE LET rest == Dedup(SubSeq(seq, 1, Len(seq) - 1))
             last == seq[Len(seq)]
         IN  IF \E i \in DOMAIN rest : rest[i] = last THEN rest ELSE Append(rest, last)
SelectRefs(cx, rq) ==
    LET ofTask(i) == IF TaskOrder[i] \in DOMAIN cx THEN cx[TaskOrder[i]] ELSE NoObj
        ofReq(i) == rq[ReqOrder[i]].contextData
        all == [i \in 1 .. Len(TaskOrder) |-> ofTask(i)] \o [i \in 1 .. Len(ReqOrder) |-> ofReq(i)]
    IN  Dedup(SelectSeq(all, LAMBDA o : o # NoObj))

\* Garbage collection: unreferenced objects are dropped and the live ones renumbered in
\* the order of SelectRefs (object identity is kept, the numbers carry no meaning).
Collect(cx, hp, rq) ==
    LET ord == SelectRefs(cx, rq)
        rename(o) == IF o = NoObj THEN NoObj ELSE CHOOSE i \in DOMAIN ord : ord[i] = o
    IN  [contexts |-> [t \in DOMAIN cx |-> rename(cx[t])],
         heap |-> [i \in DOMAIN ord |-> hp[ord[i]]],
         req |-> [r \in Reqs |-> [rq[r] EXCEPT !.contextData = rename(@)]]]

-----------------------------------------------------------------------------
(* Provider traffic and the SSE channel *)

\* a stream chunk: choices[0].delta.content, choices[0].delta.tool_calls and
\* choices[0].finish_reason
Chunk(content, tool_calls, finish_reason) == [content |-> content, tool_calls |-> tool_calls, finish_reason |-> finish_reason]
\* a chunk whose delta has no tool_calls field
PlainChunk(content, finish_reason) == [content |-> content, finish_reason |-> finish_reason]
ContentChunk(content) == PlainChunk(content, "null")
\* the test of delta.tool_calls: an array is truthy, the empty one too
HasToolCalls(chunk) == "tool_calls" \in DOMAIN chunk
\* one entry of delta.tool_calls; an absent id, type, name or arguments is empty
ToolCallDelta(id, type, name, arguments) == [id |-> id, type |-> type, function |-> [name |-> name, arguments |-> arguments]]

\* the chunks a provider stream may deliver: content deltas and a chunk without content
ContentChunks == {ContentChunk(<<"a">>), ContentChunk(<<"b">>), PlainChunk(<< >>, "stop")}
\* the chunks of a primary stream that was offered the weather tool: a content delta, a
\* first fragment naming the weather call, a first fragment naming a call of a tool that
\* has no handler, a later fragment (here in a chunk that also carries content), the
\* finish reason, and a content delta whose tool_calls is an empty array
ToolChunks ==
    {ContentChunk(<<"a">>),
     Chunk(<< >>, <<ToolCallDelta("call1", "function", "get_weather", <<"{">>)>>, "null"),
     Chunk(<< >>, <<ToolCallDelta("call2", "function", "get_time", <<"{">>)>>, "null"),
     Chunk(<<"c">>, <<ToolCallDelta("", "", "", <<"}">>)>>, "null"),
     PlainChunk(<< >>, "tool_calls"),
     Chunk(<<"a">>, << >>, "null")}
\* the primary request of llm-tools declares the weather tool, the others declare none
PrimaryChunks == IF service = "tools" THEN ToolChunks ELSE ContentChunks
\* the follow-up request of llm-tools declares no tool
FollowUpChunks == {ContentChunk(<<"t">>), PlainChunk(<< >>, "stop")}

\* the SSE channel: sse.closed, whether sse.end() was called, and the frames sent
NoSse == [closed |-> FALSE, ended |-> FALSE, frames |-> << >>]
DataFrame(chunk) == [kind |-> "data", chunk |-> chunk]
DoneFrame == [kind |-> "done"]
ErrorFrame == [kind |-> "error"]
Send(sse, frame) == [sse EXCEPT !.frames = Append(@, frame)]
End(sse) == [sse EXCEPT !.ended = TRUE]
\* sendSSEContent(sse, content, true)
SendSSEContent(sse, content) == IF ~Truthy(content) \/ sse.closed THEN sse ELSE Send(sse, DataFrame(ContentChunk(content)))

-----------------------------------------------------------------------------
(* Requests *)

NoToolCall == [id |-> "", type |-> "", function |-> [name |-> "", arguments |-> << >>]]
NoEvent == [taskId |-> NoTaskId, messages |-> << >>, useProgressiveResponse |-> "undefined"]
\* the value of event.messages in an event that has no messages field (undefined): a value
\* that no array of messages equals
NoMessages == <<[role |-> "undefined"]>>
\* const { messages = [] } = event
Supplied(messages) == IF messages = NoMessages THEN << >> ELSE messages
\* the locals of one invocation of main and handleStreamingRequest, the x-task-id header
\* it came with, and its record: the
\* history main found (previous), the requests sent to the provider (calls), the chunks
\* received (primary, followUp), the invocations of handleFunctionCall (toolRuns) and the
\* invocations of main that returned before this one (served); error: an exception
\* thrown inside the primary loop is on its way to the catch block
IdleReq ==
    [pc |-> "idle", header |-> NoTaskId, taskId |-> NoTaskId, contextData |-> NoObj, event |-> NoEvent, sse |-> NoSse,
     assistantResponse |-> << >>, collectingToolCall |-> FALSE, toolCallData |-> NoToolCall,
     accumulatedArguments |-> << >>, functionResult |-> << >>,
     userQuery |-> Null, originalSystemMsg |-> DefaultSystemMessage,
     previous |-> << >>, calls |-> << >>, primary |-> << >>, followUp |-> << >>, toolRuns |-> 0, served |-> 0,
     error |-> FALSE]

\* a request sent to the provider
\* (stream: whether the request asks for a streamed answer)
Call(kind, messages, stream) == [kind |-> kind, messages |-> messages, stream |-> stream]

\* a resolution that prefers the identifier of the body
ResolveTaskIdBodyFirst(header, eventTaskId) ==
    IF eventTaskId \notin {NoTaskId, ""} THEN eventTaskId
    ELSE IF header \notin {NoTaskId, ""} THEN header
    ELSE NoTaskId

\* headers['x-task-id'] || event.taskId || null; an absent value and the empty string
\* are the falsy ones
ResolveTaskId(header, eventTaskId) ==
    IF header \notin {NoTaskId, ""} THEN header
    ELSE IF eventTaskId \notin {NoTaskId, ""} THEN eventTaskId
    ELSE NoTaskId

\* main: the supplied messages folded into the resolved context
MainFold(cx, hp, taskId, messages, time) ==
    LET g == GetContext(cx, hp, taskId, time)
    IN  IF messages = << >> THEN [contexts |-> g.contexts, heap |-> g.heap, ref |-> g.ref, logged |-> FALSE]
        ELSE IF messages[1].role = "system"
        THEN LET replaced == [g.heap EXCEPT ![g.ref].messages[1] = messages[1]]
                 a == AddMessages(g.contexts, replaced, taskId, Tail(messages), time)
             IN  [contexts |-> a.contexts, heap |-> a.heap, ref |-> g.ref, logged |-> a.logged]
        ELSE IF taskId # NoTaskId
        THEN LET a == AddMessages(g.contexts, g.heap, taskId, messages, time)
             IN  [contexts |-> a.contexts, heap |-> a.heap, ref |-> g.ref, logged |-> a.logged]
        ELSE [contexts |-> g.contexts, heap |-> [g.heap EXCEPT ![g.ref].messages = @ \o messages], ref |-> g.ref,
              logged |-> FALSE]

-----------------------------------------------------------------------------
(* handleStreamingRequest: the code between two awaits, as operators on the *)
(* request's locals                                                         *)

\* an exception thrown by the body of the primary loop: the loop is left and the return()
\* of the stream's iterator is awaited before the catch block runs
Throw(rec) == [rec EXCEPT !.pc = "leave", !.error = TRUE]

\* the primary request, carrying contextData.messages
OpenPrimary(rec, hp) == [rec EXCEPT !.pc = "awaitPrimary", !.calls = Append(@, Call("primary", hp[rec.contextData].messages, TRUE))]

\* a relay loop that keeps only the latest content delta
RelayContentOverwrite(rec, chunk, onBreak) ==
    IF Truthy(chunk.content)
    THEN LET acc == [rec EXCEPT !.assistantResponse = chunk.content]
         IN  IF ~rec.sse.closed
             THEN [acc EXCEPT !.sse = Send(@, DataFrame(chunk))]
             ELSE [acc EXCEPT !.pc = onBreak]
    ELSE rec

\* one iteration of a relay loop: accumulate a non-empty content delta and forward the
\* chunk, or break when the channel is closed
RelayContent(rec, chunk, onBreak) ==
    IF Truthy(chunk.content)
    THEN LET acc == [rec EXCEPT !.assistantResponse = @ \o chunk.content]
         IN  IF ~rec.sse.closed
             THEN [acc EXCEPT !.sse = Send(@, DataFrame(chunk))]
             ELSE [acc EXCEPT !.pc = onBreak]
    ELSE rec

\* a collection that puts each new fragment in front of the buffer
CollectToolCallPrepend(rec, chunk) ==
    LET toolCallDelta == chunk.tool_calls[1]
        started == IF ~rec.collectingToolCall
                   THEN [rec EXCEPT !.collectingToolCall = TRUE,
                                    !.toolCallData = [id |-> toolCallDelta.id, type |-> toolCallDelta.type,
                                                      function |-> [name |-> toolCallDelta.function.name, arguments |-> << >>]]]
                   ELSE rec
    IN  IF chunk.tool_calls = << >> THEN Throw([rec EXCEPT !.collectingToolCall = TRUE])
        ELSE [started EXCEPT !.accumulatedArguments = toolCallDelta.function.arguments \o @]

\* llm-tools: a chunk carrying delta.tool_calls starts or extends the collected call;
\* tool_calls[0] of an empty array is undefined and reading its id or its function throws
CollectToolCall(rec, chunk) ==
    LET toolCallDelta == chunk.tool_calls[1]
        started == IF ~rec.collectingToolCall
                   THEN [rec EXCEPT !.collectingToolCall = TRUE,
                                    !.toolCallData = [id |-> toolCallDelta.id, type |-> toolCallDelta.type,
                                                      function |-> [name |-> toolCallDelta.function.name, arguments |-> << >>]]]
                   ELSE rec
    IN  IF chunk.tool_calls = << >> THEN Throw([rec EXCEPT !.collectingToolCall = TRUE])
        ELSE [started EXCEPT !.accumulatedArguments = @ \o toolCallDelta.function.arguments]

\* llm-tools: the finish reason of a collected call hands the buffer to handleFunctionCall
CompleteToolCall(rec) ==
    [rec EXCEPT !.toolCallData.function.arguments = rec.accumulatedArguments,
                !.pc = "awaitTool", !.toolRuns = @ + 1]

\* a primary loop that relays the content of every chunk, collected or not
ProcessChunkRelayAll(rec, chunk) ==
    IF service = "tools" /\ rec.collectingToolCall /\ chunk.finish_reason = "tool_calls" THEN CompleteToolCall(rec)
    ELSE IF service = "tools" /\ HasToolCalls(chunk) /\ chunk.tool_calls = << >> THEN CollectToolCall(rec, chunk)
    ELSE RelayContent(IF service = "tools" /\ HasToolCalls(chunk) THEN CollectToolCall(rec, chunk) ELSE rec, chunk, "leave")

\* a primary loop that runs the tool on the finish reason alone
ProcessChunkUnguarded(rec, chunk) ==
    IF service = "tools" /\ HasToolCalls(chunk) THEN CollectToolCall(rec, chunk)
    ELSE IF service = "tools" /\ chunk.finish_reason = "tool_calls" THEN CompleteToolCall(rec)
    ELSE RelayContent(rec, chunk, "leave")

\* one iteration of the primary loop
ProcessChunk(rec, chunk) ==
    IF service = "tools" /\ HasToolCalls(chunk) THEN CollectToolCall(rec, chunk)
    ELSE IF service = "tools" /\ rec.collectingToolCall /\ chunk.finish_reason = "tool_calls" THEN CompleteToolCall(rec)
    ELSE RelayContent(rec, chunk, "leave")

\* JSON.parse accepts the argument text: one object, opened and closed once
ParseOk(arguments) ==
    /\ Len(arguments) >= 2
    /\ arguments[1] = "{" /\ arguments[Len(arguments)] = "}"
    /\ \A i \in 2 .. Len(arguments) - 1 : arguments[i] \notin {"{", "}"}

\* what the await of handleFunctionCall yields when the call throws instead of returning
Thrown == <<"thrown">>

\* a handleFunctionCall that lets the parse error escape
HandleFunctionCallThrowing(functionCall) ==
    IF functionCall.name = "get_weather"
    THEN IF ParseOk(functionCall.arguments) THEN {<<"weather">>} ELSE {Thrown}
    ELSE {<<"Function not implemented">>}

\* handleFunctionCall: the serialized results it may return
HandleFunctionCall(functionCall) ==
    IF functionCall.name = "get_weather"
    THEN IF ParseOk(functionCall.arguments) THEN {<<"weather">>} ELSE {<<"Error parsing arguments">>}
    ELSE {<<"Function not implemented">>}

\* the two messages recording a tool call
ToolCallMessage(toolCallData) == [role |-> "assistant", content |-> Null, tool_calls |-> <<toolCallData>>]
ToolResultMessage(toolCallData, functionResult) == [role |-> "tool", tool_call_id |-> toolCallData.id, content |-> functionResult]

\* a save that writes the response over the last message of the session
SaveResponseOverLast(cx, hp, rec, time) ==
    IF Truthy(rec.assistantResponse) /\ rec.taskId # NoTaskId
    THEN LET g == GetContext(cx, hp, rec.taskId, time)
         IN  [contexts |-> g.contexts,
              heap |-> [g.heap EXCEPT ![g.ref].messages[Len(g.heap[g.ref].messages)] = Message("assistant", rec.assistantResponse)],
              logged |-> FALSE]
    ELSE [contexts |-> cx, heap |-> hp, logged |-> FALSE]

\* the assistant response is saved when it is non-empty and a task id was given
SaveResponse(cx, hp, rec, time) ==
    IF Truthy(rec.assistantResponse) /\ rec.taskId # NoTaskId
    THEN AddMessage(cx, hp, rec.taskId, Message("assistant", rec.assistantResponse), time)
    ELSE [contexts |-> cx, heap |-> hp, logged |-> FALSE]

\* a sentinel written whether or not the client closed the channel
FinishUnguarded(rec) == [rec EXCEPT !.pc = "done", !.sse = End(Send(@, DoneFrame))]

\* the sentinel and the end of the channel, unless the client closed it
Finish(rec) == [rec EXCEPT !.pc = "done", !.sse = IF rec.sse.closed THEN @ ELSE End(Send(@, DoneFrame))]

\* a catch block that falls through to the sentinel
CatchThenFinish(rec) == [rec EXCEPT !.pc = "done", !.sse = IF rec.sse.closed THEN @ ELSE End(Send(Send(@, ErrorFrame), DoneFrame))]

\* the catch block: an error frame and the end of the channel, unless the client closed it
Catch(rec) == [rec EXCEPT !.pc = "done", !.sse = IF rec.sse.closed THEN @ ELSE End(Send(@, ErrorFrame))]

\* llm-rag: the sources of a system message, none when the field is absent
Sources(message) == IF "sources" \in DOMAIN message THEN message.sources ELSE << >>
SourcesText(sources) == <<"References">> \o sources

\* llm-rag: the sources suffix is appended to the response and sent as a last chunk
AppendSources(rec, hp) ==
    LET sources == Sources(hp[rec.contextData].messages[1])
    IN  IF service = "rag" /\ RAG_CONFIG_enabled /\ sources # << >>
        THEN [rec EXCEPT !.assistantResponse = @ \o SourcesText(sources),
                         !.sse = IF rec.sse.closed THEN @ ELSE SendSSEContent(@, SourcesText(sources))]
        ELSE rec

\* the code after the primary loop
PostLoop(cx, hp, rec, time) ==
    LET suffixed == AppendSources(rec, hp)
        saved == IF service = "tools" /\ rec.collectingToolCall
                 THEN [contexts |-> cx, heap |-> hp, logged |-> FALSE]
                 ELSE SaveResponse(cx, hp, suffixed, time)
    IN  [contexts |-> saved.contexts, heap |-> saved.heap, rec |-> Finish(suffixed), logged |-> saved.logged]

-----------------------------------------------------------------------------
(* llm-fast-reply: the quick response of the small model *)

SMALL_MODEL_PROMPT == <<"SP">>
\* the contents the small model may answer with
SmallModelContents == {<<"q">>}

\* a decision in which an explicit false does not switch the deployment default off
EnableProgressiveResponseNoOptOut(event) ==
    \/ event.useProgressiveResponse = "true"
    \/ PROGRESSIVE_RESPONSE_enabled

EnableProgressiveResponse(event) ==
    \/ event.useProgressiveResponse = "true"
    \/ PROGRESSIVE_RESPONSE_enabled /\ event.useProgressiveResponse # "false"

\* event.messages[event.messages.length - 1], undefined for an empty list
LastMessage(event) == IF event.messages = << >> THEN Message("undefined", Null) ELSE event.messages[Len(event.messages)]

\* the non-streaming request of getSmallModelResponse
OpenSmall(rec) ==
    [rec EXCEPT !.pc = "awaitSmall",
                !.calls = Append(@, Call("small", <<Message("system", SMALL_MODEL_PROMPT), Message("user", LastMessage(rec.event).content)>>, FALSE))]

-----------------------------------------------------------------------------
(* llm-rag: retrieval and the enhanced system message *)

\* the corpus holds NumDocs documents
NumDocs == 2
similarityThreshold == 1
DocTitles == <<"T1", "T2", "T3">>
DocContents == <<"D1", "D2", "D3">>
\* the similarities cosineSimilarity may yield, one per document
Similarities == [1 .. NumDocs -> 0 .. 2]
RAG_NOTICE == <<"retrieving">>

\* an insertion that puts a document before the documents of equal similarity
InsertDocBeforeEquals(sorted, doc) ==
    LET k == Cardinality({i \in DOMAIN sorted : sorted[i].similarity > doc.similarity})
    IN  SubSeq(sorted, 1, k) \o <<doc>> \o SubSeq(sorted, k + 1, Len(sorted))

\* Array.prototype.sort with (a, b) => b.similarity - a.similarity: descending and stable
InsertDoc(sorted, doc) ==
    LET k == Cardinality({i \in DOMAIN sorted : sorted[i].similarity >= doc.similarity})
    IN  SubSeq(sorted, 1, k) \o <<doc>> \o SubSeq(sorted, k + 1, Len(sorted))
RECURSIVE SortBySimilarity(_)
SortBySimilarity(docs) ==
    IF docs = << >> THEN << >>
    ELSE InsertDoc(SortBySimilarity(SubSeq(docs, 1, Len(docs) - 1)), docs[Len(docs)])

\* a retrieval that ranks and truncates without looking at the threshold
RetrieveWithoutThreshold(similarity) ==
    LET scoredDocs == [i \in 1 .. NumDocs |-> [title |-> DocTitles[i], content |-> DocContents[i], similarity |-> similarity[i]]]
        sorted == SortBySimilarity(scoredDocs)
    IN  SubSeq(sorted, 1, IF Len(sorted) < maxDocuments THEN Len(sorted) ELSE maxDocuments)

\* retrieveRelevantDocuments: the documents kept, << >> standing for null
RetrieveRelevantDocuments(similarity) ==
    LET scoredDocs == [i \in 1 .. NumDocs |-> [title |-> DocTitles[i], content |-> DocContents[i], similarity |-> similarity[i]]]
        sorted == SortBySimilarity(SelectSeq(scoredDocs, LAMBDA doc : doc.similarity >= similarityThreshold))
    IN  SubSeq(sorted, 1, IF Len(sorted) < maxDocuments THEN Len(sorted) ELSE maxDocuments)

\* createContext: null for no documents, else a header, each document's title and
\* content, the instruction
RECURSIVE DocumentsText(_)
DocumentsText(docs) == IF docs = << >> THEN << >> ELSE <<docs[1].title, docs[1].content>> \o DocumentsText(Tail(docs))
CreateContext(docs) == IF docs = << >> THEN Null ELSE <<"info">> \o DocumentsText(docs) \o <<"instruction">>

\* enhanceSystemMessage, given what retrieval returned
EnhanceSystemMessage(systemMessage, relevantDocs) ==
    IF relevantDocs = << >> THEN systemMessage
    ELSE IF ~Truthy(CreateContext(relevantDocs)) THEN systemMessage
    ELSE [role |-> "system",
          content |-> systemMessage.content \o <<"\n\n">> \o CreateContext(relevantDocs),
          sources |-> [i \in DOMAIN relevantDocs |-> relevantDocs[i].title]]

\* findLatestUserQuery: the content of the last user message with content, else null
FindLatestUserQuery(messages) ==
    LET hits == {i \in DOMAIN messages : messages[i].role = "user" /\ Truthy(messages[i].content)}
    IN  IF hits = {} THEN Null ELSE messages[CHOOSE i \in hits : \A j \in hits : j <= i].content

\* handleStreamingRequest up to its first await; llm-fast-reply reads
\* event.messages.length, which throws when the event has no messages field
Start(rec, hp) ==
    IF rec.sse.closed THEN [rec EXCEPT !.pc = "done"]
    ELSE IF service = "fast-reply" /\ rec.event.messages = NoMessages THEN Catch(rec)
    ELSE IF service = "fast-reply" /\ EnableProgressiveResponse(rec.event) /\ LastMessage(rec.event).role = "user"
    THEN OpenSmall(rec)
    ELSE IF service = "rag" /\ RAG_CONFIG_enabled /\ Truthy(FindLatestUserQuery(hp[rec.contextData].messages))
    THEN [rec EXCEPT !.pc = "awaitEnhance",
                     !.userQuery = FindLatestUserQuery(hp[rec.contextData].messages),
                     !.originalSystemMsg = hp[rec.contextData].messages[1]]
    ELSE OpenPrimary(rec, hp)

-----------------------------------------------------------------------------
(* The store driven call by call *)

\* the session identifiers and the messages the store is driven with
StoreTaskIds == {TaskOrder[1]}
StoreMessages == {Message("user", <<"u">>), Message("assistant", <<"a">>)}
StoreSystemMessages == {Message("system", <<"P1">>)}

StoreInit ==
    /\ config \in [service : {"context-manager"}, MAX_CONTEXT_MESSAGES : 0 .. MaxConfigured, PROGRESSIVE_RESPONSE_enabled : {FALSE}, maxDocuments : {1}, API_KEY : {TRUE}, USE_RAG : {"true"}]
    /\ now = 0
    /\ contexts = << >>
    /\ heap = << >>
    /\ req = [r \in Reqs |-> IdleReq]
    /\ trimLog = FALSE

\* a caller resolves a session and keeps the returned object
StoreGetContext(r, taskId) ==
    LET g == GetContext(contexts, heap, taskId, now)
        c == Collect(g.contexts, g.heap, [req EXCEPT ![r] = [@ EXCEPT !.pc = "held", !.taskId = taskId, !.contextData = g.ref]])
    IN  /\ req' = c.req
        /\ contexts' = c.contexts
        /\ heap' = c.heap
        /\ trimLog' = FALSE
        /\ UNCHANGED <<config, now>>

\* a caller appends a message to a session
StoreAddMessage(taskId, message) ==
    LET a == AddMessage(contexts, heap, taskId, message, now)
        c == Collect(a.contexts, a.heap, req)
        before == IF taskId \in DOMAIN contexts THEN Len(heap[contexts[taskId]].messages) ELSE 1
    IN  /\ before <= MAX_CONTEXT_MESSAGES + MaxOverflow
        /\ contexts' = c.contexts
        /\ heap' = c.heap
        /\ req' = c.req
        /\ trimLog' = (taskId # NoTaskId /\ before + 1 > MAX_CONTEXT_MESSAGES + 1)
        /\ UNCHANGED <<config, now>>

\* contextData.messages[0] = messages[0], done by main when messages[0].role === 'system'
StoreReplaceSystem(r, message) ==
    /\ req[r].pc = "held"
    /\ message.role = "system"
    /\ heap' = [heap EXCEPT ![req[r].contextData].messages[1] = message]
    /\ trimLog' = FALSE
    /\ UNCHANGED <<config, now, contexts, req>>

\* contextData.messages.push(msg), done by main when there is no task id
StorePush(r, message) ==
    /\ req[r].pc = "held"
    /\ req[r].taskId = NoTaskId
    /\ Len(heap[req[r].contextData].messages) < MaxOverflow
    /\ heap' = [heap EXCEPT ![req[r].contextData].messages = Append(@, message)]
    /\ trimLog' = FALSE
    /\ UNCHANGED <<config, now, contexts, req>>

\* time passes
Tick ==
    /\ now < MaxTime
    /\ now' = now + 1
    /\ trimLog' = FALSE
    /\ UNCHANGED <<config, contexts, heap, req>>

\* ContextManager.cleanExpiredContexts, run by the interval timer
CleanExpiredContexts ==
    LET c == Collect([t \in (DOMAIN contexts) \ Expired(contexts, heap, now) |-> contexts[t]], heap, req)
    IN  /\ contexts' = c.contexts
        /\ heap' = c.heap
        /\ req' = c.req
        /\ trimLog' = FALSE
        /\ UNCHANGED <<config, now>>

StoreNext ==
    \/ \E r \in Reqs, t \in StoreTaskIds \cup {NoTaskId} : StoreGetContext(r, t)
    \/ \E t \in StoreTaskIds \cup {NoTaskId}, m \in StoreMessages : StoreAddMessage(t, m)
    \/ \E r \in Reqs, m \in StoreSystemMessages : StoreReplaceSystem(r, m)
    \/ \E r \in Reqs : StorePush(r, Message("user", <<"u">>))

SpecStore == StoreInit /\ [][StoreNext]_vars

-----------------------------------------------------------------------------
(* The store with its clock and its sweep *)

SweepMessages == {Message("user", <<"u">>)}

SweepInit == StoreInit /\ MAX_CONTEXT_MESSAGES = MaxConfigured

\* a caller appends a message and keeps what addMessage returned, the context or null
CallAddMessage(r, taskId, message) ==
    LET a == AddMessage(contexts, heap, taskId, message, now)
        returned == IF taskId = NoTaskId THEN NoObj ELSE a.contexts[taskId]
        c == Collect(a.contexts, a.heap, [req EXCEPT ![r] = [@ EXCEPT !.pc = "added", !.taskId = taskId, !.contextData = returned]])
        before == IF taskId \in DOMAIN contexts THEN Len(heap[contexts[taskId]].messages) ELSE 1
    IN  /\ contexts' = c.contexts
        /\ heap' = c.heap
        /\ req' = c.req
        /\ trimLog' = (taskId # NoTaskId /\ before + 1 > MAX_CONTEXT_MESSAGES + 1)
        /\ UNCHANGED <<config, now>>

SweepNext ==
    \/ \E r \in Reqs, t \in TaskIds \cup {NoTaskId} : StoreGetContext(r, t)
    \/ \E r \in Reqs, t \in TaskIds \cup {NoTaskId}, m \in SweepMessages : CallAddMessage(r, t, m)
    \/ Tick
    \/ CleanExpiredContexts

SpecSweep == SweepInit /\ [][SweepNext]_vars

-----------------------------------------------------------------------------
(* One request served by one of the four services *)

\* chunks delivered by one primary stream, and by one follow-up stream
MaxChunks == 3
MaxFollowUp == 2
RelayMaxContext == {1, 4}
RelayReqs == {ReqOrder[1]}
\* what the session of TaskOrder[1] was given before the request arrives
SeedMessages == {<< >>, <<Message("user", <<"u0">>), Message("assistant", <<"a0">>)>>}
\* the event.messages of the request
RequestMessages ==
    {<< >>,
     <<Message("user", <<"u">>)>>,
     <<Message("assistant", <<"a1">>)>>,
     <<Message("system", <<"P1">>), Message("user", <<"u">>)>>}
\* the x-task-id header of the request, which carries no event.taskId
RequestTaskIds == {TaskOrder[1], NoTaskId}

Init ==
    /\ config \in [service : Services, MAX_CONTEXT_MESSAGES : RelayMaxContext, PROGRESSIVE_RESPONSE_enabled : BOOLEAN, maxDocuments : {1}, API_KEY : {TRUE}, USE_RAG : {"true"}]
    /\ config.PROGRESSIVE_RESPONSE_enabled => config.service = "fast-reply"
    /\ now = 0
    /\ \E seed \in SeedMessages :
          LET a == AddMessages(<< >>, << >>, TaskOrder[1], seed, 0)
          IN  contexts = a.contexts /\ heap = a.heap /\ trimLog = a.logged
    /\ req = [r \in Reqs |-> IdleReq]

\* the new store and the new locals of request r after a step that called addMessage,
\* unreferenced objects collected; logged: whether one of the calls logged the trimming
CommitStore(cx, hp, r, rec, logged) ==
    LET c == Collect(cx, hp, [req EXCEPT ![r] = rec])
    IN  /\ contexts' = c.contexts
        /\ heap' = c.heap
        /\ req' = c.req
        /\ trimLog' = logged
        /\ UNCHANGED <<config, now>>

\* the same after a step that logs no trimming
Commit(cx, hp, r, rec) == CommitStore(cx, hp, r, rec, FALSE)

\* the module was loaded: llm-context-manager exits while loading when API_KEY is
\* falsy, the other three services log it and go on
Loaded == service = "context-manager" => API_KEY

\* main, and handleStreamingRequest up to its first await
Main(r, header, eventTaskId, messages, useProgressiveResponse, closed) ==
    /\ Loaded
    /\ req[r].pc = "idle"
    /\ LET taskId == ResolveTaskId(header, eventTaskId)
           f == MainFold(contexts, heap, taskId, Supplied(messages), now)
           found == GetContext(contexts, heap, taskId, now)
           rec == [IdleReq EXCEPT !.header = header, !.taskId = taskId, !.contextData = f.ref, !.served = req[r].served,
                                  !.previous = found.heap[found.ref].messages,
                                  !.event = [taskId |-> eventTaskId, messages |-> messages, useProgressiveResponse |-> useProgressiveResponse],
                                  !.sse = [NoSse EXCEPT !.closed = closed]]
       IN  CommitStore(f.contexts, f.heap, r, Start(rec, f.heap), f.logged)

\* a small-model answer that is not awaited: it goes out when it arrives, before or after
\* the primary request was sent
SmallDoneUnawaited(r, content) ==
    /\ req[r].pc \in {"awaitSmall", "stream"}
    /\ \E i \in DOMAIN req[r].calls : req[r].calls[i].kind = "small"
    /\ \A i \in DOMAIN req[r].sse.frames : req[r].sse.frames[i] # DataFrame(ContentChunk(content \o <<"\n\n">>))
    /\ LET sent == [req[r] EXCEPT !.sse = SendSSEContent(@, content \o <<"\n\n">>)]
       IN  Commit(contexts, heap, r, IF req[r].pc = "awaitSmall" THEN OpenPrimary(sent, heap) ELSE sent)

\* llm-fast-reply: the small model answered; its content goes out before the primary request
SmallDone(r, content) ==
    /\ req[r].pc = "awaitSmall"
    /\ Commit(contexts, heap, r, OpenPrimary([req[r] EXCEPT !.sse = SendSSEContent(@, content \o <<"\n\n">>)], heap))

\* a small-model failure that reaches the catch block of the handler
SmallFailedCaught(r) ==
    /\ req[r].pc = "awaitSmall"
    /\ Commit(contexts, heap, r, Catch(req[r]))

\* llm-fast-reply: the small model failed; the failure is swallowed
SmallFailed(r) ==
    /\ req[r].pc = "awaitSmall"
    /\ Commit(contexts, heap, r, OpenPrimary(req[r], heap))

\* an enhancement whose failure reaches the catch block of the handler
EnhanceDoneOrCaught(r, similarity, failed) ==
    /\ req[r].pc = "awaitEnhance"
    /\ LET relevantDocs == RetrieveRelevantDocuments(similarity)
           enhanced == EnhanceSystemMessage(req[r].originalSystemMsg, relevantDocs)
           hp == [heap EXCEPT ![req[r].contextData].messages[1] = enhanced]
           noticed == [req[r] EXCEPT !.sse = SendSSEContent(@, RAG_NOTICE)]
       IN  IF failed
           THEN Commit(contexts, heap, r, Catch(req[r]))
           ELSE Commit(contexts, hp, r, OpenPrimary(noticed, hp))

\* llm-rag: enhanceSystemMessage returned; the system message is replaced, the notice sent
EnhanceDone(r, similarity, failed) ==
    /\ req[r].pc = "awaitEnhance"
    /\ LET relevantDocs == IF failed THEN << >> ELSE RetrieveRelevantDocuments(similarity)
           enhanced == EnhanceSystemMessage(req[r].originalSystemMsg, relevantDocs)
           hp == [heap EXCEPT ![req[r].contextData].messages[1] = enhanced]
           noticed == [req[r] EXCEPT !.sse = SendSSEContent(@, RAG_NOTICE)]
       IN  Commit(contexts, hp, r, OpenPrimary(noticed, hp))

\* the provider accepted the primary request
PrimaryOpened(r) ==
    /\ req[r].pc = "awaitPrimary"
    /\ Commit(contexts, heap, r, [req[r] EXCEPT !.pc = "stream"])

\* the primary stream delivers a chunk
PrimaryChunk(r, chunk) ==
    /\ req[r].pc = "stream"
    /\ Len(req[r].primary) < MaxChunks
    /\ Commit(contexts, heap, r, ProcessChunk([req[r] EXCEPT !.primary = Append(@, chunk)], chunk))

\* the primary stream ends
PrimaryEnd(r) ==
    /\ req[r].pc = "stream"
    /\ LET p == PostLoop(contexts, heap, req[r], now)
       IN  CommitStore(p.contexts, p.heap, r, p.rec, p.logged)

\* the primary loop was left, by a break or by an exception of its body, and the return()
\* of the stream's iterator settled: the code after the loop runs, or the catch block
LeaveLoop(r) ==
    /\ req[r].pc = "leave"
    /\ LET p == PostLoop(contexts, heap, req[r], now)
       IN  IF req[r].error
           THEN Commit(contexts, heap, r, Catch(req[r]))
           ELSE CommitStore(p.contexts, p.heap, r, p.rec, p.logged)

\* llm-tools: handleFunctionCall returned; the call and its result are recorded when a
\* task id was given, and the follow-up request is sent
ToolDone(r, functionResult) ==
    /\ req[r].pc = "awaitTool"
    /\ functionResult \in HandleFunctionCall(req[r].toolCallData.function)
    /\ LET rec == req[r]
           recorded == <<ToolCallMessage(rec.toolCallData), ToolResultMessage(rec.toolCallData, functionResult)>>
           a == AddMessages(contexts, heap, rec.taskId, recorded, now)
           followUpMessages == a.heap[rec.contextData].messages \o recorded
       IN  IF functionResult = Thrown
           THEN Commit(contexts, heap, r, Throw(rec))
           ELSE CommitStore(a.contexts, a.heap, r,
                            [rec EXCEPT !.functionResult = functionResult, !.pc = "awaitFollowUp",
                                        !.calls = Append(@, Call("followUp", followUpMessages, TRUE))],
                            a.logged)

\* llm-tools: the provider accepted the follow-up request
FollowUpOpened(r) ==
    /\ req[r].pc = "awaitFollowUp"
    /\ Commit(contexts, heap, r, [req[r] EXCEPT !.pc = "followStream"])

\* llm-tools: the follow-up stream delivers a chunk
FollowUpChunk(r, chunk) ==
    /\ req[r].pc = "followStream"
    /\ Len(req[r].followUp) < MaxFollowUp
    /\ Commit(contexts, heap, r, RelayContent([req[r] EXCEPT !.followUp = Append(@, chunk)], chunk, "leaveFollowUp"))

\* a follow-up loop after which the primary loop goes on reading
FollowUpEndContinues(r) ==
    /\ req[r].pc \in {"followStream", "leaveFollowUp"}
    /\ LET a == SaveResponse(contexts, heap, req[r], now)
       IN  CommitStore(a.contexts, a.heap, r, [req[r] EXCEPT !.pc = "stream"], a.logged)

\* llm-tools: the follow-up loop is over, by the end of the stream or by a break; the
\* final response is saved and the primary loop left
FollowUpEnd(r) ==
    /\ req[r].pc \in {"followStream", "leaveFollowUp"}
    /\ LET a == SaveResponse(contexts, heap, req[r], now)
       IN  CommitStore(a.contexts, a.heap, r, [req[r] EXCEPT !.pc = "leave"], a.logged)

\* a failure handler that first saves what was received of the response
ProviderFailsSaving(r) ==
    /\ req[r].pc \in {"awaitPrimary", "stream", "awaitFollowUp", "followStream"}
    /\ LET a == SaveResponse(contexts, heap, req[r], now)
       IN  CommitStore(a.contexts, a.heap, r,
                       IF req[r].pc \in {"awaitFollowUp", "followStream"} THEN Throw(req[r]) ELSE Catch(req[r]),
                       a.logged)

\* the provider rejects a request or a stream fails: the catch block runs, after the
\* primary loop was left when the failure is that of the follow-up request or stream
ProviderFails(r) ==
    /\ req[r].pc \in {"awaitPrimary", "stream", "awaitFollowUp", "followStream"}
    /\ Commit(contexts, heap, r, IF req[r].pc \in {"awaitFollowUp", "followStream"} THEN Throw(req[r]) ELSE Catch(req[r]))

\* the client closes the channel
ClientClose(r) ==
    /\ req[r].pc \notin {"idle", "held", "done"}
    /\ ~req[r].sse.closed
    /\ Commit(contexts, heap, r, [req[r] EXCEPT !.sse.closed = TRUE])

Next ==
    \E r \in RelayReqs :
        \/ \E header \in RequestTaskIds, closed \in BOOLEAN,
                 messages \in RequestMessages \cup (IF service = "fast-reply" THEN {NoMessages} ELSE {}) :
              \E useProgressiveResponse \in (IF service = "fast-reply" THEN {"true", "false", "undefined"} ELSE {"undefined"}) :
                  Main(r, header, NoTaskId, messages, useProgressiveResponse, closed)
        \/ \E content \in SmallModelContents : SmallDone(r, content)
        \/ SmallFailed(r)
        \/ \E similarity \in Similarities, failed \in BOOLEAN : EnhanceDone(r, similarity, failed)
        \/ PrimaryOpened(r)
        \/ \E chunk \in PrimaryChunks : PrimaryChunk(r, chunk)
        \/ PrimaryEnd(r)
        \/ LeaveLoop(r)
        \/ \E functionResult \in HandleFunctionCall(req[r].toolCallData.function) : ToolDone(r, functionResult)
        \/ FollowUpOpened(r)
        \/ \E chunk \in FollowUpChunks : FollowUpChunk(r, chunk)
        \/ FollowUpEnd(r)
        \/ ProviderFails(r)
        \/ ClientClose(r)

Spec == Init /\ [][Next]_vars

-----------------------------------------------------------------------------
(* llm-rag serving the successive requests of one session *)

\* RAG_MAX_DOCUMENTS is configured from 1 to MaxKept
MaxKept == 2
\* main is invoked at most MaxRequests times, one invocation after the other
MaxRequests == 2
\* the deltas of the primary stream, and the event.messages of a request
RagChunks == {ContentChunk(<<"a">>)}
RagMessages == {<< >>, <<Message("user", <<"u">>)>>}

RagInit ==
    /\ config \in [service : {"rag"}, MAX_CONTEXT_MESSAGES : {4}, PROGRESSIVE_RESPONSE_enabled : {FALSE}, maxDocuments : 1 .. MaxKept, API_KEY : {TRUE}, USE_RAG : {"true", "false"}]
    /\ now = 0
    /\ contexts = << >>
    /\ heap = << >>
    /\ req = [r \in Reqs |-> IdleReq]
    /\ trimLog = FALSE

\* the invocation of main returned; the next one starts with fresh locals
Return(r) ==
    /\ req[r].pc = "done"
    /\ req[r].served + 1 < MaxRequests
    /\ Commit(contexts, heap, r, [IdleReq EXCEPT !.served = req[r].served + 1])

RagNext ==
    \E r \in RelayReqs :
        \/ \E messages \in RagMessages : Main(r, TaskOrder[1], NoTaskId, messages, "undefined", FALSE)
        \/ \E similarity \in Similarities, failed \in BOOLEAN : EnhanceDone(r, similarity, failed)
        \/ PrimaryOpened(r)
        \/ \E chunk \in RagChunks : PrimaryChunk(r, chunk)
        \/ PrimaryEnd(r)
        \/ ProviderFails(r)
        \/ Return(r)

SpecRag == RagInit /\ [][RagNext]_vars

-----------------------------------------------------------------------------
(* llm-context-manager serving successive requests that name their session in the *)
(* x-task-id header, in event.taskId, in both or in neither                       *)

\* the values of the header and of event.taskId: an identifier, none, the empty string
EntryIds == TaskIds \cup {NoTaskId, ""}
EntryMessages == {<<Message("user", <<"u">>)>>}

EntryInit ==
    /\ config \in [service : {"context-manager"}, MAX_CONTEXT_MESSAGES : {4}, PROGRESSIVE_RESPONSE_enabled : {FALSE}, maxDocuments : {1}, API_KEY : {TRUE}, USE_RAG : {"true"}]
    /\ now = 0
    /\ contexts = << >>
    /\ heap = << >>
    /\ req = [r \in Reqs |-> IdleReq]
    /\ trimLog = FALSE

EntryNext ==
    \E r \in RelayReqs :
        \/ \E header \in EntryIds, eventTaskId \in EntryIds, messages \in EntryMessages :
              Main(r, header, eventTaskId, messages, "undefined", FALSE)
        \/ PrimaryOpened(r)
        \/ \E chunk \in RagChunks : PrimaryChunk(r, chunk)
        \/ PrimaryEnd(r)
        \/ ProviderFails(r)
        \/ Return(r)

SpecEntry == EntryInit /\ [][EntryNext]_vars

-----------------------------------------------------------------------------
(* Two requests served at the same time by llm-tools or by llm-rag: the code between *)
(* two awaits of one request runs without interruption, the awaits of the two        *)
(* requests complete in any order                                                    *)

PairServices == {"tools", "rag"}
PairMaxContext == {2, 8}
\* the first request names the first session; the second names the same session or the
\* other one, and may supply a system message
PairFirstMessages == {<<Message("user", <<"u">>)>>}
PairSecondMessages == {<<Message("user", <<"v">>)>>, <<Message("system", <<"P1">>), Message("user", <<"v">>)>>}
\* the chunks of the primary streams and of the follow-up streams
PairChunks ==
    IF service = "tools"
    THEN {Chunk(<< >>, <<ToolCallDelta("call1", "function", "get_weather", <<"{">>)>>, "null"), PlainChunk(<< >>, "tool_calls")}
    ELSE {ContentChunk(<<"a">>)}
PairFollowUpChunks == {ContentChunk(<<"t">>)}

PairInit ==
    /\ config \in [service : PairServices, MAX_CONTEXT_MESSAGES : PairMaxContext, PROGRESSIVE_RESPONSE_enabled : {FALSE}, maxDocuments : {1}, API_KEY : {TRUE}, USE_RAG : {"true"}]
    /\ now = 0
    /\ contexts = << >>
    /\ heap = << >>
    /\ req = [r \in Reqs |-> IdleReq]
    /\ trimLog = FALSE

PairNext ==
    \/ \E messages \in PairFirstMessages : Main(ReqOrder[1], TaskOrder[1], NoTaskId, messages, "undefined", FALSE)
    \/ \E header \in TaskIds, messages \in PairSecondMessages : Main(ReqOrder[2], header, NoTaskId, messages, "undefined", FALSE)
    \/ \E r \in Reqs :
          \/ \E similarity \in Similarities, failed \in BOOLEAN : EnhanceDone(r, similarity, failed)
          \/ PrimaryOpened(r)
          \/ \E chunk \in PairChunks : PrimaryChunk(r, chunk)
          \/ PrimaryEnd(r)
          \/ LeaveLoop(r)
          \/ \E functionResult \in HandleFunctionCall(req[r].toolCallData.function) : ToolDone(r, functionResult)
          \/ FollowUpOpened(r)
          \/ \E chunk \in PairFollowUpChunks : FollowUpChunk(r, chunk)
          \/ FollowUpEnd(r)

SpecPair == PairInit /\ [][PairNext]_vars

-----------------------------------------------------------------------------
(* Two requests that name different sessions, served at the same time while the clock *)
(* moves                                                                              *)

ApartInit == PairInit /\ MAX_CONTEXT_MESSAGES = 8

ApartNext ==
    \/ \E messages \in PairFirstMessages : Main(ReqOrder[1], TaskOrder[1], NoTaskId, messages, "undefined", FALSE)
    \/ Main(ReqOrder[2], TaskOrder[2], NoTaskId, <<Message("system", <<"P1">>), Message("user", <<"v">>)>>, "undefined", FALSE)
    \/ \E r \in Reqs :
          \/ \E similarity \in Similarities, failed \in BOOLEAN : EnhanceDone(r, similarity, failed)
          \/ PrimaryOpened(r)
          \/ \E chunk \in PairChunks : PrimaryChunk(r, chunk)
          \/ PrimaryEnd(r)
          \/ LeaveLoop(r)
          \/ \E functionResult \in HandleFunctionCall(req[r].toolCallData.function) : ToolDone(r, functionResult)
          \/ FollowUpOpened(r)
          \/ \E chunk \in PairFollowUpChunks : FollowUpChunk(r, chunk)
          \/ FollowUpEnd(r)
    \/ Tick

SpecApart == ApartInit /\ [][ApartNext]_vars

-----------------------------------------------------------------------------
(* The four services started with and without LLM_API_KEY *)

StartupInit ==
    /\ config \in [service : Services, MAX_CONTEXT_MESSAGES : {4}, PROGRESSIVE_RESPONSE_enabled : BOOLEAN, maxDocuments : {1}, API_KEY : BOOLEAN, USE_RAG : {"true"}]
    /\ config.PROGRESSIVE_RESPONSE_enabled => config.service = "fast-reply"
    /\ now = 0
    /\ contexts = << >>
    /\ heap = << >>
    /\ req = [r \in Reqs |-> IdleReq]
    /\ trimLog = FALSE

StartupNext ==
    \E r \in RelayReqs :
        \/ \E header \in RequestTaskIds, messages \in EntryMessages :
              Main(r, header, NoTaskId, messages, "undefined", FALSE)
        \/ \E content \in SmallModelContents : SmallDone(r, content)
        \/ SmallFailed(r)
        \/ \E similarity \in Similarities, failed \in BOOLEAN : EnhanceDone(r, similarity, failed)
        \/ PrimaryOpened(r)
        \/ \E chunk \in RagChunks : PrimaryChunk(r, chunk)
        \/ PrimaryEnd(r)
        \/ ProviderFails(r)

SpecStartup == StartupInit /\ [][StartupNext]_vars

-----------------------------------------------------------------------------
(* Properties of the session store *)

\* the messages of the session registered for a task id
History(t) == heap[contexts[t]].messages
\* the last n entries of a sequence
LastN(seq, n) == SubSeq(seq, Len(seq) - n + 1, Len(seq))

\* C1: with MAX_CONTEXT_MESSAGES >= 1, every registered session holds at most
\* MAX_CONTEXT_MESSAGES + 1 messages and its first message has the system role, after any
\* sequence of addMessage, getContext and index-0 replacements.
C1_HistoryBounded ==
    MAX_CONTEXT_MESSAGES >= 1 =>
        \A t \in DOMAIN contexts :
            /\ Len(History(t)) >= 1
            /\ Len(History(t)) <= MAX_CONTEXT_MESSAGES + 1
            /\ History(t)[1].role = "system"

\* C1 witness: an addMessage has just trimmed a session whose system message had been
\* replaced, and the session is full.
C1_Witness ==
    /\ MAX_CONTEXT_MESSAGES >= 1
    /\ trimLog
    /\ \E t \in DOMAIN contexts :
          /\ Len(History(t)) = MAX_CONTEXT_MESSAGES + 1
          /\ History(t)[1] = Message("system", <<"P1">>)

\* C2: an addMessage that pushes a history past MAX_CONTEXT_MESSAGES + 1 entries leaves
\* exactly the message that was at index 0 followed by the last MAX_CONTEXT_MESSAGES
\* entries of (old history + new message), in their order.
C2_TrimKeepsIndex0AndRecent ==
    [][\A t \in StoreTaskIds, m \in StoreMessages :
          LET old == IF t \in DOMAIN contexts THEN History(t) ELSE <<DefaultSystemMessage>>
              pushed == Append(old, m)
          IN  (StoreAddMessage(t, m) /\ Len(pushed) > MAX_CONTEXT_MESSAGES + 1) =>
                  heap'[contexts'[t]].messages = <<old[1]>> \o LastN(pushed, MAX_CONTEXT_MESSAGES)]_vars

\* C3: getContext without a task id returns a fresh object holding only the default
\* system message and leaves the registered sessions as they were; the object is never
\* registered and never shared with another caller.
C3_NoTaskIdNeverShared ==
    /\ [](\A r \in Reqs :
            (req[r].pc # "idle" /\ req[r].taskId = NoTaskId) =>
                /\ \A t \in DOMAIN contexts : contexts[t] # req[r].contextData
                /\ \A q \in Reqs \ {r} : req[q].contextData # req[r].contextData)
    /\ [][\A r \in Reqs :
            StoreGetContext(r, NoTaskId) =>
                /\ DOMAIN contexts' = DOMAIN contexts
                /\ \A t \in DOMAIN contexts : heap'[contexts'[t]] = heap[contexts[t]]
                /\ heap'[req'[r].contextData].messages = <<DefaultSystemMessage>>]_vars

\* C3 witness: two callers without a task id hold their objects, one of them with a
\* pushed message, while a session is registered.
C3_Witness ==
    /\ \A r \in Reqs : req[r].pc = "held" /\ req[r].taskId = NoTaskId
    /\ DOMAIN contexts # {}
    /\ \E r \in Reqs : Len(heap[req[r].contextData].messages) = 2

-----------------------------------------------------------------------------
(* Properties of the relay *)

\* the positions of the terminal frames, the sentinel and the error frame
Terminals(frames) == {i \in DOMAIN frames : frames[i].kind \in {"done", "error"}}

\* C4: in each of the four services, whatever the provider does and whenever the client
\* disconnects, at most one terminal frame (sentinel or error) is written, nothing is
\* written after it, the channel is ended exactly when it was written, and a request
\* whose client never closed the channel finishes with exactly one terminal frame and
\* the channel ended.
C4_OneTerminalAction ==
    \A r \in Reqs :
        LET sse == req[r].sse
            terminals == Terminals(sse.frames)
        IN  /\ Cardinality(terminals) <= 1
            /\ \A i \in terminals : i = Len(sse.frames)
            /\ sse.ended <=> terminals # {}
            /\ (req[r].pc = "done" /\ ~sse.closed) => (Cardinality(terminals) = 1 /\ sse.ended)

\* llm-tools: the follow-up stream failed after a delta was forwarded, the client still
\* connected; the error frame is the only terminal frame
C4_Witness ==
    \E r \in Reqs :
        /\ service = "tools" /\ req[r].pc = "done" /\ ~req[r].sse.closed
        /\ Len(req[r].followUp) > 0
        /\ Len(req[r].sse.frames) >= 2
        /\ req[r].sse.frames[Len(req[r].sse.frames)] = ErrorFrame
        /\ req[r].sse.frames[Len(req[r].sse.frames) - 1].kind = "data"

\* the content deltas of a chunk sequence, concatenated
RECURSIVE Contents(_)
Contents(chunks) == IF chunks = << >> THEN << >> ELSE (IF Truthy(chunks[1].content) THEN chunks[1].content ELSE << >>) \o Contents(Tail(chunks))
\* one data frame per chunk with a non-empty content delta, in order
ContentFrames(chunks) ==
    LET kept == SelectSeq(chunks, LAMBDA chunk : Truthy(chunk.content))
    IN  [i \in DOMAIN kept |-> DataFrame(kept[i])]
\* a history after trimming: index 0 and the most recent MAX_CONTEXT_MESSAGES
Trimmed(full) == IF Len(full) > MAX_CONTEXT_MESSAGES + 1 THEN <<full[1]>> \o LastN(full, MAX_CONTEXT_MESSAGES) ELSE full
\* the request r of the base service that C5 is about: a task id, no leading system
\* message, a provider that streamed and finished, a client that stayed connected
C5_Case(r) ==
    /\ service = "context-manager" /\ req[r].pc = "done"
    /\ req[r].taskId # NoTaskId
    /\ req[r].event.messages = << >> \/ req[r].event.messages[1].role # "system"
    /\ ~req[r].sse.closed
    /\ req[r].sse.frames # << >> /\ req[r].sse.frames[Len(req[r].sse.frames)] = DoneFrame

\* C5 (as stated): in the base service such a request puts on the channel one data frame
\* per non-empty content delta, in provider order, then the sentinel, and ends it; and
\* the session history is the previous history, the supplied messages and one assistant
\* message holding the concatenated deltas, trimmed.
C5_RelayAndPersist ==
    \A r \in Reqs :
        C5_Case(r) =>
            /\ req[r].sse.frames = ContentFrames(req[r].primary) \o <<DoneFrame>>
            /\ req[r].sse.ended
            /\ History(req[r].taskId) =
                  Trimmed(req[r].previous \o req[r].event.messages \o <<Message("assistant", Contents(req[r].primary))>>)

\* C5 (amended): the same, the assistant message being appended only when the
\* concatenated deltas are non-empty; an empty response appends nothing.
C5_RelayAndPersistNonEmpty ==
    \A r \in Reqs :
        C5_Case(r) =>
            /\ req[r].sse.frames = ContentFrames(req[r].primary) \o <<DoneFrame>>
            /\ req[r].sse.ended
            /\ History(req[r].taskId) =
                  Trimmed(req[r].previous \o req[r].event.messages \o
                          (IF Contents(req[r].primary) # << >> THEN <<Message("assistant", Contents(req[r].primary))>> ELSE << >>))

\* two different deltas and an empty one were streamed to a session with a previous
\* history, and the history was trimmed
C5_Witness ==
    \E r \in Reqs :
        /\ C5_Case(r)
        /\ Contents(req[r].primary) = <<"a", "b">>
        /\ Len(req[r].primary) = 3
        /\ Len(req[r].previous) > 1
        /\ req[r].event.messages # << >>
        /\ Len(req[r].previous) + Len(req[r].event.messages) + 1 > MAX_CONTEXT_MESSAGES + 1

\* the entries of delta.tool_calls of a chunk, none when the field is absent
ToolCallsOf(chunk) == IF HasToolCalls(chunk) THEN chunk.tool_calls ELSE << >>
\* the argument fragments of the tool-call deltas of a chunk sequence, concatenated
RECURSIVE Fragments(_)
Fragments(chunks) ==
    IF chunks = << >> THEN << >>
    ELSE (IF ToolCallsOf(chunks[1]) # << >> THEN chunks[1].tool_calls[1].function.arguments ELSE << >>) \o Fragments(Tail(chunks))
\* the messages of the primary request of r
PrimaryMessages(r) == req[r].calls[1].messages
\* the two messages recording the tool call of r
Recorded(r) == <<ToolCallMessage(req[r].toolCallData), ToolResultMessage(req[r].toolCallData, req[r].functionResult)>>

\* C6: in llm-tools, for a request with a task id whose primary stream carried fragments
\* and the tool finish reason, whose follow-up streamed non-empty text T and whose client
\* stayed connected, the history ends, absent trimming, with the call message (null
\* content), the tool-result message and an assistant message whose content is exactly T.
C6_HistoryEndsWithToolExchange ==
    \A r \in Reqs :
        (/\ service = "tools" /\ req[r].pc = "done"
         /\ req[r].taskId # NoTaskId
         /\ req[r].toolRuns = 1
         /\ Contents(req[r].followUp) # << >>
         /\ ~req[r].sse.closed
         /\ req[r].sse.frames[Len(req[r].sse.frames)] = DoneFrame
         /\ Len(PrimaryMessages(r)) + 3 <= MAX_CONTEXT_MESSAGES + 1)
        => LastN(History(req[r].taskId), 3) = Recorded(r) \o <<Message("assistant", Contents(req[r].followUp))>>

\* C7: in llm-tools every data frame on the channel is a chunk of the primary or of the
\* follow-up stream that carries a content delta and no tool-call fragment; no frame
\* carries the accumulated arguments or the tool result.
C7_NoToolDataOnChannel ==
    \A r \in Reqs :
        service = "tools" =>
            \A i \in DOMAIN req[r].sse.frames :
                LET frame == req[r].sse.frames[i]
                IN  frame.kind = "data" =>
                        /\ ToolCallsOf(frame.chunk) = << >>
                        /\ Truthy(frame.chunk.content)
                        /\ \/ \E j \in DOMAIN req[r].primary : req[r].primary[j] = frame.chunk
                           \/ \E j \in DOMAIN req[r].followUp : req[r].followUp[j] = frame.chunk
                        /\ req[r].toolRuns = 1 =>
                              frame.chunk.content \notin {req[r].accumulatedArguments, req[r].functionResult}

\* two fragments (one in a chunk that also carries content), the finish reason and a
\* follow-up delta: only the follow-up delta was forwarded
C7_Witness ==
    \E r \in Reqs :
        /\ service = "tools" /\ req[r].pc = "done"
        /\ req[r].toolRuns = 1
        /\ \E j \in DOMAIN req[r].primary : ToolCallsOf(req[r].primary[j]) # << >> /\ Truthy(req[r].primary[j].content)
        /\ req[r].sse.frames = <<DataFrame(ContentChunk(<<"t">>)), DoneFrame>>

\* C8: in llm-tools the messages of the follow-up request are the messages of the primary
\* request followed by one call message and one tool-result message, with and without a
\* task id.
C8_ContinuationMessages ==
    \A r \in Reqs :
        \A i \in DOMAIN req[r].calls :
            req[r].calls[i].kind = "followUp" => req[r].calls[i].messages = PrimaryMessages(r) \o Recorded(r)

\* C9: in llm-tools the arguments handed to handleFunctionCall are the argument fragments
\* of all tool-call deltas of the primary stream, concatenated in arrival order.
C9_ArgumentsInArrivalOrder ==
    \A r \in Reqs :
        req[r].toolRuns = 1 => req[r].toolCallData.function.arguments = Fragments(req[r].primary)

\* two fragments arrived and the handler received them in order
C9_Witness ==
    \E r \in Reqs :
        /\ req[r].toolRuns = 1
        /\ Cardinality({j \in DOMAIN req[r].primary : ToolCallsOf(req[r].primary[j]) # << >>}) = 2
        /\ req[r].toolCallData.function.arguments = <<"{", "}">>

\* C10: in llm-tools handleFunctionCall runs at most once per request, and only when the
\* finish reason arrived as the last chunk, after at least one fragment.
C10_ToolRunsOnceAfterFinish ==
    \A r \in Reqs :
        /\ req[r].toolRuns <= 1
        /\ req[r].toolRuns = 1 =>
              LET n == Len(req[r].primary)
              IN  /\ n >= 2
                  /\ req[r].primary[n].finish_reason = "tool_calls"
                  /\ ToolCallsOf(req[r].primary[n]) = << >>
                  /\ \E j \in 1 .. n - 1 : ToolCallsOf(req[r].primary[j]) # << >>
        /\ req[r].pc \in {"awaitTool", "awaitFollowUp", "followStream", "leaveFollowUp"} => req[r].toolRuns = 1

\* the tool ran on complete arguments and returned the weather
C10_Witness ==
    \E r \in Reqs :
        /\ req[r].toolRuns = 1
        /\ req[r].functionResult = <<"weather">>
        /\ req[r].pc = "done"

\* the last element of a non-empty sequence
Last(seq) == seq[Len(seq)]

\* C11: in llm-tools handleFunctionCall always returns a payload: a tool name without a
\* handler yields 'Function not implemented', arguments that do not parse yield the
\* parse error; the step that follows the tool writes no frame and issues the follow-up
\* request with the payload as the content of the tool message.
C11_ToolFailureIsAResult ==
    [][\A r \in Reqs :
          (req[r].pc = "awaitTool" /\ req'[r].pc # "awaitTool") =>
              LET functionCall == req[r].toolCallData.function
                  functionResult == req'[r].functionResult
              IN  /\ req'[r].pc = "awaitFollowUp"
                  /\ req'[r].sse.frames = req[r].sse.frames
                  /\ functionResult # Thrown
                  /\ functionCall.name # "get_weather" => functionResult = <<"Function not implemented">>
                  /\ (functionCall.name = "get_weather" /\ ~ParseOk(functionCall.arguments)) =>
                         functionResult = <<"Error parsing arguments">>
                  /\ Len(req'[r].calls) = Len(req[r].calls) + 1
                  /\ Last(req'[r].calls).kind = "followUp"
                  /\ Last(Last(req'[r].calls).messages) = ToolResultMessage(req[r].toolCallData, functionResult)]_vars

\* a call of get_time, which has no handler, with well-formed arguments: the follow-up
\* request carries 'Function not implemented' and the request ended with the sentinel
C11_Witness ==
    \E r \in Reqs :
        /\ service = "tools" /\ req[r].pc = "done"
        /\ req[r].toolCallData.function = [name |-> "get_time", arguments |-> <<"{", "}">>]
        /\ Len(req[r].calls) = 2
        /\ Last(req[r].calls[2].messages).content = <<"Function not implemented">>
        /\ req[r].sse.frames # << >> /\ Last(req[r].sse.frames) = DoneFrame

\* the messages of the primary request of r, << >> while none was sent
SentToProvider(r) ==
    LET sent == SelectSeq(req[r].calls, LAMBDA call : call.kind = "primary")
    IN  IF sent = << >> THEN << >> ELSE sent[1].messages
\* the list C12 describes for the supplied messages and the history main found
FoldedAsDescribed(r) ==
    LET supplied == req[r].event.messages
        prior == req[r].previous
        full == IF supplied[1].role = "system"
                THEN <<supplied[1]>> \o Tail(prior) \o Tail(supplied)
                ELSE prior \o supplied
    IN  IF req[r].taskId # NoTaskId THEN Trimmed(full) ELSE full

\* C12: when a request supplies messages, with or without a task id, the list sent on the
\* primary request is the supplied system message, the prior history after index 0 and
\* the remaining supplied messages when the first supplied message is a system message,
\* and the prior history followed by the supplied messages otherwise (trimmed; in
\* llm-rag index 0 is compared by its role only, since the handler rewrites it).
C12_SuppliedMessagesFolded ==
    \A r \in Reqs :
        (req[r].event.messages # << >> /\ SentToProvider(r) # << >>) =>
            /\ Tail(SentToProvider(r)) = Tail(FoldedAsDescribed(r))
            /\ SentToProvider(r)[1].role = FoldedAsDescribed(r)[1].role
            /\ service # "rag" => SentToProvider(r)[1] = FoldedAsDescribed(r)[1]

\* C13: in every service, once the channel reports closed it stays closed and no frame is
\* written to it for the rest of the request, and a request that ends with the channel
\* closed has written neither the sentinel nor an error frame.
C13_NothingWrittenAfterClose ==
    /\ [](\A r \in Reqs : (req[r].pc = "done" /\ req[r].sse.closed) => (Terminals(req[r].sse.frames) = {} /\ ~req[r].sse.ended))
    /\ [][\A r \in Reqs : req[r].sse.closed => (req'[r].sse.closed /\ req'[r].sse.frames = req[r].sse.frames)]_vars

\* the client closed the channel after a first delta was forwarded; a later delta was read
\* and not forwarded, and the request ended without a terminal frame
C13_Witness ==
    \E r \in Reqs :
        /\ req[r].pc = "done" /\ req[r].sse.closed
        /\ req[r].sse.frames = <<DataFrame(ContentChunk(<<"a">>))>>
        /\ Contents(req[r].primary) = <<"a", "b">>

\* C14: after the channel has closed the request sends no further request to the provider
\* (primary request after the small model, follow-up request after a tool) and runs no
\* tool.
C14_NoNewWorkAfterClose ==
    [][\A r \in Reqs :
          req[r].sse.closed => (req'[r].calls = req[r].calls /\ req'[r].toolRuns = req[r].toolRuns)]_vars

\* C15: when a provider call fails (the primary request, the primary stream, the
\* follow-up request or stream) every session history stays what it was, and when the
\* catch block then runs with the channel open (at once, or once the primary loop was
\* left when the failure is that of the follow-up request or stream), one error frame is
\* written after frames that hold no terminal frame, the channel is ended, and every
\* session history is still what it was when the failure happened.
C15_FailureFramesAndKeepsHistory ==
    [][\A r \in Reqs :
          /\ ProviderFails(r) =>
                /\ req'[r].pc = "done" \/ (req'[r].pc = "leave" /\ req'[r].error)
                /\ DOMAIN contexts' = DOMAIN contexts
                /\ \A t \in DOMAIN contexts : heap'[contexts'[t]].messages = History(t)
          /\ (/\ \/ ProviderFails(r) /\ req[r].pc \in {"awaitPrimary", "stream"}
                 \/ LeaveLoop(r) /\ req[r].error
              /\ ~req[r].sse.closed) =>
                /\ Terminals(req[r].sse.frames) = {}
                /\ req'[r].sse.frames = Append(req[r].sse.frames, ErrorFrame)
                /\ req'[r].sse.ended
                /\ req'[r].pc = "done"
                /\ DOMAIN contexts' = DOMAIN contexts
                /\ \A t \in DOMAIN contexts : heap'[contexts'[t]].messages = History(t)]_vars

\* base service: the primary stream failed after a delta was forwarded; the history holds
\* the previous and the supplied messages and no assistant message for the failed stream
C15_Witness ==
    \E r \in Reqs :
        /\ service = "context-manager" /\ req[r].pc = "done" /\ req[r].taskId # NoTaskId
        /\ req[r].sse.frames = <<DataFrame(ContentChunk(<<"a">>)), ErrorFrame>>
        /\ req[r].sse.ended
        /\ req[r].event.messages = <<Message("user", <<"u">>)>>
        /\ Len(req[r].previous) = 1
        /\ MAX_CONTEXT_MESSAGES = 4
        /\ History(req[r].taskId) = req[r].previous \o req[r].event.messages

\* the requests of a given kind that r sent to the provider
CallsOfKind(r, kind) == SelectSeq(req[r].calls, LAMBDA call : call.kind = kind)

\* C16: in llm-fast-reply a request served by the handler (its channel was available, so
\* a provider request was sent) sends the small-model request exactly when the request
\* flag is true, or the deployment default is on and the flag is not false, and the last
\* supplied message has the user role; it is sent at most once, first, and is not streamed.
C16_PreambleDecision ==
    \A r \in Reqs :
        service = "fast-reply" =>
            LET event == req[r].event
                wanted == /\ \/ event.useProgressiveResponse = "true"
                             \/ PROGRESSIVE_RESPONSE_enabled /\ event.useProgressiveResponse # "false"
                          /\ event.messages # << >>
                          /\ Last(event.messages).role = "user"
                small == CallsOfKind(r, "small")
            IN  /\ Len(small) <= 1
                /\ \A i \in DOMAIN small : ~small[i].stream
                /\ req[r].calls # << >> => ((Len(small) = 1 /\ req[r].calls[1].kind = "small") <=> wanted)

\* the deployment default is on and the flag says false: no small-model request, and the
\* primary request was sent
C16_Witness ==
    \E r \in Reqs :
        /\ service = "fast-reply" /\ PROGRESSIVE_RESPONSE_enabled
        /\ req[r].event.useProgressiveResponse = "false"
        /\ req[r].event.messages # << >> /\ Last(req[r].event.messages).role = "user"
        /\ CallsOfKind(r, "small") = << >>
        /\ Len(CallsOfKind(r, "primary")) = 1

\* the positions of the frames that carry a small-model answer
Preambles(frames) ==
    {i \in DOMAIN frames : \E content \in SmallModelContents : frames[i] = DataFrame(ContentChunk(content \o <<"\n\n">>))}

\* C17: in llm-fast-reply at most one preamble frame is written per request, it is the
\* first frame of the channel, and the step that writes it finds no primary request sent
\* yet.
C17_PreambleFirst ==
    /\ [](\A r \in Reqs :
            service = "fast-reply" =>
                /\ Cardinality(Preambles(req[r].sse.frames)) <= 1
                /\ \A i \in Preambles(req[r].sse.frames) : i = 1)
    /\ [][\A r \in Reqs :
            Preambles(req'[r].sse.frames) # Preambles(req[r].sse.frames) => CallsOfKind(r, "primary") = << >>]_vars

\* the preamble, then two primary deltas, then the sentinel
C17_Witness ==
    \E r \in Reqs :
        /\ service = "fast-reply" /\ req[r].pc = "done"
        /\ req[r].sse.frames = <<DataFrame(ContentChunk(<<"q", "\n\n">>)), DataFrame(ContentChunk(<<"a">>)),
                                 DataFrame(ContentChunk(<<"b">>)), DoneFrame>>

\* C18: in llm-fast-reply a failed small-model request writes nothing on the channel and
\* leaves the store alone; the primary request is sent with contextData.messages, the
\* list a request without the preamble step sends, and the request goes on from there.
C18_PreambleFailureSwallowed ==
    [][\A r \in Reqs :
          SmallFailed(r) =>
              /\ req'[r] = [req[r] EXCEPT !.pc = "awaitPrimary",
                                          !.calls = Append(@, Call("primary", heap[req[r].contextData].messages, TRUE))]
              /\ req'[r].sse = req[r].sse
              /\ heap' = heap /\ contexts' = contexts]_vars

\* the small-model request failed with the client connected: no preamble frame, the
\* primary delta and the sentinel as in a request without preamble
C18_Witness ==
    \E r \in Reqs :
        /\ service = "fast-reply" /\ req[r].pc = "done" /\ ~req[r].sse.closed
        /\ Len(CallsOfKind(r, "small")) = 1
        /\ Len(CallsOfKind(r, "primary")) = 1
        /\ req[r].sse.frames = <<DataFrame(ContentChunk(<<"a">>)), DoneFrame>>

\* the system message of the context r holds, after a step
SystemMessageAfter(r) == heap'[req'[r].contextData].messages[1]

\* C19: in llm-rag, when no document of the corpus scores at or above the similarity
\* threshold, enhanceSystemMessage returns the system message it was given: the same
\* content and no sources.
C19_NothingRelevantKeepsSystemMessage ==
    [][\A r \in Reqs : \A similarity \in Similarities :
          (EnhanceDone(r, similarity, FALSE) /\ \A i \in 1 .. NumDocs : similarity[i] < similarityThreshold) =>
              /\ SystemMessageAfter(r) = req[r].originalSystemMsg
              /\ Sources(SystemMessageAfter(r)) = << >>
              /\ Last(req'[r].calls).messages[1] = req[r].originalSystemMsg]_vars

\* a request with a user query and a supplied system message went through the enhancement
\* and sent that system message, without sources, on the primary request
C19_Witness ==
    \E r \in Reqs :
        /\ service = "rag" /\ req[r].pc = "awaitPrimary"
        /\ Truthy(req[r].userQuery)
        /\ req[r].originalSystemMsg = Message("system", <<"P1">>)
        /\ SentToProvider(r) # << >>
        /\ SentToProvider(r)[1] = Message("system", <<"P1">>)

\* C20: in llm-rag, when scoring or context formatting fails, the system message stays the
\* one the handler held, no error frame is written, and the primary request is sent.
C20_RetrievalFailureFallsBack ==
    [][\A r \in Reqs : \A similarity \in Similarities :
          EnhanceDone(r, similarity, TRUE) =>
              /\ SystemMessageAfter(r) = req[r].originalSystemMsg
              /\ Terminals(req'[r].sse.frames) = {}
              /\ req'[r].pc = "awaitPrimary"
              /\ Len(req'[r].calls) = Len(req[r].calls) + 1
              /\ Last(req'[r].calls) = Call("primary", heap[req[r].contextData].messages, TRUE)]_vars

\* a request whose enhancement left the default system message went on to stream a delta
\* and ended with the sentinel
C20_Witness ==
    \E r \in Reqs :
        /\ service = "rag" /\ req[r].pc = "done" /\ ~req[r].sse.closed
        /\ Truthy(req[r].userQuery)
        /\ SentToProvider(r) # << >>
        /\ SentToProvider(r)[1] = DefaultSystemMessage
        /\ req[r].sse.frames = <<DataFrame(ContentChunk(RAG_NOTICE)), DataFrame(ContentChunk(<<"a">>)), DoneFrame>>

-----------------------------------------------------------------------------
(* Properties of the session store under its clock and its sweep *)

\* C22: addMessage without a task id changes neither the map of sessions nor the history
\* or the timestamp of any session, returns null, and the message is kept nowhere: every
\* context object alive after the call was alive, with the same contents, before it.
C22_AddMessageWithoutIdIsNoOp ==
    [][\A r \in Reqs, m \in SweepMessages :
          CallAddMessage(r, NoTaskId, m) =>
              /\ contexts' = contexts
              /\ \A t \in DOMAIN contexts : heap'[contexts'[t]] = heap[contexts[t]]
              /\ req'[r].contextData = NoObj
              /\ \A o \in DOMAIN heap' : \E b \in DOMAIN heap : heap'[o] = heap[b]]_vars

\* a caller got null from addMessage without a task id while a session with a message,
\* last accessed before the current time, is registered
C22_Witness ==
    \E r \in Reqs, t \in DOMAIN contexts :
        /\ req[r].pc = "added" /\ req[r].taskId = NoTaskId /\ req[r].contextData = NoObj
        /\ Len(History(t)) = 2
        /\ heap[contexts[t]].lastAccessedAt < now

\* C23: getContext with a task id that is not registered registers a session holding
\* exactly the default system message; with a registered task id it returns the
\* registered object, with its history as it was and lastAccessedAt set to the current
\* time.
C23_GetContextCreatesOrTouches ==
    [][\A r \in Reqs, t \in TaskIds :
          StoreGetContext(r, t) =>
              /\ t \in DOMAIN contexts'
              /\ req'[r].contextData = contexts'[t]
              /\ heap'[contexts'[t]].lastAccessedAt = now
              /\ IF t \in DOMAIN contexts
                 THEN /\ heap'[contexts'[t]].messages = heap[contexts[t]].messages
                      /\ \A q \in Reqs \ {r} : (req[q].contextData = contexts[t]) = (req'[q].contextData = contexts'[t])
                 ELSE heap'[contexts'[t]].messages = <<DefaultSystemMessage>>]_vars

\* a caller resolved, after the clock moved, a session that held a message: it holds the
\* registered object, whose timestamp is the current time, and so does the caller that
\* had added the message
C23_Witness ==
    \E r \in Reqs, t \in DOMAIN contexts :
        /\ req[r].pc = "held" /\ req[r].taskId = t /\ req[r].contextData = contexts[t]
        /\ Len(History(t)) = 2
        /\ now > 0 /\ heap[contexts[t]].lastAccessedAt = now
        /\ \E q \in Reqs \ {r} : req[q].pc = "added" /\ req[q].contextData = contexts[t]

\* C24: cleanExpiredContexts removes exactly the sessions with now - lastAccessedAt
\* greater than the expiry time and leaves the other sessions, history and timestamp, as
\* they were; getContext for a task id that is not registered, removed ones included,
\* registers a session holding only the default system message.
C24_SweepRemovesExactlyExpired ==
    /\ [][CleanExpiredContexts =>
             /\ DOMAIN contexts' = {t \in DOMAIN contexts : now - heap[contexts[t]].lastAccessedAt <= expiryTime}
             /\ \A t \in DOMAIN contexts' : heap'[contexts'[t]] = heap[contexts[t]]]_vars
    /\ [][\A r \in Reqs, t \in TaskIds :
             (StoreGetContext(r, t) /\ t \notin DOMAIN contexts) =>
                 heap'[contexts'[t]] = NewContext(now)]_vars

\* a sweep removed a session a caller still holds with its message, kept the session
\* whose age is exactly the expiry time, and the removed task id was resolved again and
\* holds only the default system message
C24_Witness ==
    \E r, q \in Reqs, t, u \in TaskIds :
        /\ r # q /\ t # u
        /\ req[q].pc = "added" /\ req[q].taskId = t /\ req[q].contextData # NoObj
        /\ Len(heap[req[q].contextData].messages) = 2
        /\ t \in DOMAIN contexts /\ contexts[t] # req[q].contextData
        /\ req[r].pc = "held" /\ req[r].taskId = t /\ req[r].contextData = contexts[t]
        /\ History(t) = <<DefaultSystemMessage>>
        /\ u \in DOMAIN contexts /\ now - heap[contexts[u]].lastAccessedAt = expiryTime

-----------------------------------------------------------------------------
(* Properties of the request entry point *)

\* C25: the task id of a request is the x-task-id header whenever the header has a
\* value, whatever event.taskId is; it is event.taskId only when the header has no value,
\* and the request has no task id only when neither has one (an empty string is no
\* value).  The session resolved is the one registered under that task id.
C25_HeaderTakesPrecedence ==
    [][\A r \in Reqs, header \in EntryIds, eventTaskId \in EntryIds, messages \in EntryMessages :
          Main(r, header, eventTaskId, messages, "undefined", FALSE) =>
              /\ header \in TaskIds => req'[r].taskId = header
              /\ (header \notin TaskIds /\ eventTaskId \in TaskIds) => req'[r].taskId = eventTaskId
              /\ (header \notin TaskIds /\ eventTaskId \notin TaskIds) => req'[r].taskId = NoTaskId
              /\ req'[r].taskId \in TaskIds =>
                     /\ req'[r].taskId \in DOMAIN contexts'
                     /\ req'[r].contextData = contexts'[req'[r].taskId]
              /\ DOMAIN contexts' \subseteq DOMAIN contexts \cup ({header} \cap TaskIds)
                                                          \cup (IF header \in TaskIds THEN {} ELSE {eventTaskId} \cap TaskIds)]_vars

\* a request with one identifier in its header and another in its body stored its
\* answer in the session of the header, and the session of the body does not exist
C25_Witness ==
    \E r \in Reqs :
        /\ req[r].pc = "done" /\ req[r].header = TaskOrder[1] /\ req[r].event.taskId = TaskOrder[2]
        /\ req[r].taskId = TaskOrder[1]
        /\ TaskOrder[2] \notin DOMAIN contexts
        /\ History(TaskOrder[1]) = <<DefaultSystemMessage, Message("user", <<"u">>), Message("assistant", <<"a">>)>>

\* C26: in each of the four services, when LLM_API_KEY is not set no request is handled:
\* no request is sent to the provider and no frame is written.
C26_NoCredentialNoRequestHandled ==
    ~API_KEY =>
        \A r \in Reqs : req[r].pc = "idle" /\ req[r].calls = << >> /\ req[r].sse.frames = << >>

-----------------------------------------------------------------------------
(* What is written to the client and what is stored *)

\* the content of the content frames of a channel, concatenated in order
RECURSIVE WrittenContent(_)
WrittenContent(frames) ==
    IF frames = << >> THEN << >>
    ELSE (IF frames[1].kind = "data" /\ Truthy(frames[1].chunk.content) THEN frames[1].chunk.content ELSE << >>)
             \o WrittenContent(Tail(frames))
\* a request with a task id that ended at the end of the stream, the client connected
C27_Case(r) ==
    /\ req[r].pc = "done" /\ req[r].taskId # NoTaskId /\ ~req[r].sse.closed
    /\ req[r].sse.frames # << >> /\ Last(req[r].sse.frames) = DoneFrame

\* C27: in each service, when such a request wrote content frames, the last
\* message of its session is the assistant message whose content is the concatenation,
\* in order, of the content of every content frame written.
C27_StoredEqualsWritten ==
    \A r \in Reqs :
        (C27_Case(r) /\ WrittenContent(req[r].sse.frames) # << >>) =>
            Last(History(req[r].taskId)) = Message("assistant", WrittenContent(req[r].sse.frames))

-----------------------------------------------------------------------------
(* The order of the tool turn *)

\* C28: in llm-tools, the step that reads the 'tool_calls' finish reason and every step
\* taken while handleFunctionCall runs write no frame and send no request; the follow-up
\* request is sent by the step that receives the tool result and carries that result as
\* its last message; and once the follow-up request was sent no chunk of the primary
\* stream is read any more.
C28_ToolTurnInOrder ==
    [][\A r \in Reqs :
          /\ req'[r].pc = "awaitTool" =>
                 /\ req'[r].sse.frames = req[r].sse.frames
                 /\ req'[r].calls = req[r].calls
          /\ req'[r].calls # req[r].calls /\ Last(req'[r].calls).kind = "followUp" =>
                 /\ req[r].pc = "awaitTool"
                 /\ req[r].sse.frames = req'[r].sse.frames
                 /\ Last(Last(req'[r].calls).messages) = ToolResultMessage(req[r].toolCallData, req'[r].functionResult)
                 /\ req'[r].functionResult \in HandleFunctionCall(req[r].toolCallData.function)
          /\ CallsOfKind(r, "followUp") # << >> => req'[r].primary = req[r].primary]_vars

\* a request whose tool ran and whose follow-up stream delivered a delta ended with the
\* sentinel, the finish reason being the last chunk read from the primary stream
C28_Witness ==
    \E r \in Reqs :
        /\ service = "tools" /\ req[r].pc = "done" /\ ~req[r].sse.closed
        /\ req[r].toolRuns = 1
        /\ Len(CallsOfKind(r, "followUp")) = 1
        /\ req[r].followUp = <<ContentChunk(<<"t">>)>>
        /\ Last(req[r].primary).finish_reason = "tool_calls"
        /\ Last(req[r].sse.frames) = DoneFrame

\* the invocation identifiers named by the fragments read from the primary stream
InvocationIds(r) ==
    {req[r].primary[i].tool_calls[1].id : i \in {j \in DOMAIN req[r].primary : ToolCallsOf(req[r].primary[j]) # << >>}} \ {""}

\* C29: in llm-tools, once the primary stream has carried fragments of two different
\* invocation identifiers, the request has failed: handleFunctionCall has not run, the
\* request is over, an error frame is the last frame when the client is connected, and
\* the argument buffer holds fragments of one invocation at most.
C29_TwoInvocationsFail ==
    \A r \in Reqs :
        (service = "tools" /\ Cardinality(InvocationIds(r)) >= 2) =>
            /\ req[r].toolRuns = 0
            /\ req[r].pc = "done"
            /\ ~req[r].sse.closed => (req[r].sse.frames # << >> /\ Last(req[r].sse.frames) = ErrorFrame)
            /\ Len(req[r].accumulatedArguments) <= 1

-----------------------------------------------------------------------------
(* Properties of llm-rag over successive requests *)

\* the documents scoring at or above the threshold, and the place of one of them when
\* they are ranked by descending score, equal scores in corpus order
Eligible(similarity) == {i \in 1 .. NumDocs : similarity[i] >= similarityThreshold}
Rank(similarity, i) ==
    1 + Cardinality({j \in Eligible(similarity) :
                        similarity[j] > similarity[i] \/ (similarity[j] = similarity[i] /\ j < i)})
Kept(similarity) ==
    LET n == Cardinality(Eligible(similarity))
    IN  [k \in 1 .. (IF n < maxDocuments THEN n ELSE maxDocuments) |->
            CHOOSE i \in Eligible(similarity) : Rank(similarity, i) = k]

\* C21: in llm-rag the documents kept are the corpus documents scoring at or above the
\* threshold, by descending score with equal scores in corpus order, cut to at most
\* maxDocuments; the enhanced system message is the original content, a blank line, the
\* header, each kept document's title and content in that order and the instruction, and
\* its sources are the kept titles in that order.
C21_KeptDocumentsRankedAndListed ==
    [][\A r \in Reqs : \A similarity \in Similarities :
          (EnhanceDone(r, similarity, FALSE) /\ Eligible(similarity) # {}) =>
              LET kept == Kept(similarity)
                  listed == [k \in 1 .. 2 * Len(kept) |->
                                IF k % 2 = 1 THEN DocTitles[kept[(k + 1) \div 2]] ELSE DocContents[kept[k \div 2]]]
              IN  /\ SystemMessageAfter(r).content =
                         req[r].originalSystemMsg.content \o <<"\n\n", "info">> \o listed \o <<"instruction">>
                  /\ Sources(SystemMessageAfter(r)) = [k \in DOMAIN kept |-> DocTitles[kept[k]]]
                  /\ Last(req'[r].calls).messages[1] = SystemMessageAfter(r)]_vars

\* with maxDocuments = 2 both documents were kept and the second of the corpus, scoring
\* higher, is listed and cited first
C21_Witness ==
    \E r \in Reqs :
        /\ service = "rag" /\ maxDocuments = 2 /\ req[r].pc = "awaitPrimary" /\ req[r].served = 0
        /\ Sources(heap[req[r].contextData].messages[1]) = <<DocTitles[2], DocTitles[1]>>
        /\ heap[req[r].contextData].messages[1].content =
               DEFAULT_PROMPT \o <<"\n\n", "info", DocTitles[2], DocContents[2], DocTitles[1], DocContents[1], "instruction">>

\* the retrieved-documents blocks in a content, each starting with the header
Blocks(content) == Cardinality({i \in DOMAIN content : content[i] = "info"})

\* C30: in llm-rag, for a stored session served over successive requests that supply no
\* system message, the system message sent to the provider and the one stored at index 0
\* hold at most one retrieved-documents block, and the enhancement of a request leaves
\* the default prompt followed by the block of the documents kept for that request, or
\* the default prompt alone when none is kept.
C30_BlocksDoNotAccumulate ==
    /\ [](\A r \in Reqs :
             /\ \A i \in DOMAIN req[r].calls : Blocks(req[r].calls[i].messages[1].content) <= 1
             /\ \A t \in DOMAIN contexts : Blocks(History(t)[1].content) <= 1)
    /\ [][\A r \in Reqs : \A similarity \in Similarities :
             EnhanceDone(r, similarity, FALSE) =>
                 LET kept == Kept(similarity)
                     docs == [k \in DOMAIN kept |-> [title |-> DocTitles[kept[k]], content |-> DocContents[kept[k]]]]
                 IN  SystemMessageAfter(r).content =
                        IF kept = << >> THEN DEFAULT_PROMPT
                        ELSE DEFAULT_PROMPT \o <<"\n\n">> \o CreateContext(docs)]_vars

\* the positions of the frames that carry the retrieval notice or a References suffix
RagFrames(frames) ==
    {i \in DOMAIN frames : /\ frames[i].kind = "data"
                           /\ \/ frames[i].chunk.content = RAG_NOTICE
                              \/ (frames[i].chunk.content # << >> /\ frames[i].chunk.content[1] = "References")}

\* C31: in llm-rag deployed with USE_RAG off, a request never waits for an enhancement,
\* sends the system message it found with no retrieved-documents block, and writes
\* neither the retrieval notice nor a References suffix.
C31_RetrievalOffLeavesRequestAlone ==
    config.USE_RAG = "false" =>
        \A r \in Reqs :
            /\ req[r].pc # "awaitEnhance"
            /\ RagFrames(req[r].sse.frames) = {}
            /\ \A i \in DOMAIN req[r].calls : Blocks(req[r].calls[i].messages[1].content) = 0

-----------------------------------------------------------------------------
(* The store configured to keep no message *)

\* C32: with MAX_CONTEXT_MESSAGES = 0 every registered session holds its system message
\* and nothing else, whatever was added to it: the history never grows.
C32_ZeroKeepsOnlySystemMessage ==
    MAX_CONTEXT_MESSAGES = 0 =>
        \A t \in DOMAIN contexts : Len(History(t)) = 1 /\ History(t)[1].role = "system"

-----------------------------------------------------------------------------
(* Properties of two requests served at the same time *)

\* the messages a request has passed to addMessage so far: the supplied messages after a
\* leading system message, the tool exchange once the tool returned, the response once
\* the loop that received it was left
Appends(r) ==
    LET supplied == req[r].event.messages
        folded == IF supplied # << >> /\ supplied[1].role = "system" THEN Tail(supplied) ELSE supplied
        exchange == IF req[r].functionResult # << >>
                    THEN <<ToolCallMessage(req[r].toolCallData), ToolResultMessage(req[r].toolCallData, req[r].functionResult)>>
                    ELSE << >>
        saved == /\ Truthy(req[r].assistantResponse)
                 /\ ~req[r].error
                 /\ IF CallsOfKind(r, "followUp") # << >>
                    THEN req[r].pc \in {"leave", "done"}
                    ELSE req[r].pc = "done" /\ ~(service = "tools" /\ req[r].collectingToolCall)
    IN  folded \o exchange \o (IF saved THEN <<Message("assistant", req[r].assistantResponse)>> ELSE << >>)
\* whether h is an interleaving of a and b that keeps the order of each
RECURSIVE IsMerge(_, _, _)
IsMerge(h, a, b) ==
    IF h = << >> THEN a = << >> /\ b = << >>
    ELSE \/ a # << >> /\ Head(a) = Head(h) /\ IsMerge(Tail(h), Tail(a), b)
         \/ b # << >> /\ Head(b) = Head(h) /\ IsMerge(Tail(h), a, Tail(b))
\* a sequence without its first n entries
Drop(seq, n) == SubSeq(seq, n + 1, Len(seq))

\* C33: when two requests are served at the same time, the history of a session after
\* its system message is an interleaving of what the requests naming it have appended,
\* each message once and each request's messages in their order; when that exceeds
\* MAX_CONTEXT_MESSAGES the history holds MAX_CONTEXT_MESSAGES messages, an interleaving
\* of the latest appends of each request.
C33_ConcurrentAppendsKept ==
    \A t \in DOMAIN contexts :
        LET of(r) == IF req[r].taskId = t THEN Appends(r) ELSE << >>
            a == of(ReqOrder[1])
            b == of(ReqOrder[2])
            h == Tail(History(t))
        IN  IF Len(a) + Len(b) <= MAX_CONTEXT_MESSAGES
            THEN IsMerge(h, a, b)
            ELSE /\ Len(h) = MAX_CONTEXT_MESSAGES
                 /\ \E i \in 0 .. Len(a), j \in 0 .. Len(b) : IsMerge(h, Drop(a, i), Drop(b, j))

\* two requests of llm-tools on one session are over: the second folded its message and
\* recorded its tool exchange between the fold and the tool exchange of the first, and
\* all eight appended messages are in the history
C33_Witness ==
    /\ service = "tools" /\ MAX_CONTEXT_MESSAGES = 8
    /\ \A r \in Reqs : req[r].pc = "done" /\ req[r].taskId = TaskOrder[1] /\ Len(Appends(r)) = 4
    /\ Len(History(TaskOrder[1])) = 9
    /\ History(TaskOrder[1])[2] = Message("user", <<"u">>)
    /\ History(TaskOrder[1])[3] = Message("user", <<"v">>)
    /\ History(TaskOrder[1])[4].role = "assistant" /\ History(TaskOrder[1])[5].role = "tool"
    /\ History(TaskOrder[1])[6].role = "assistant" /\ History(TaskOrder[1])[7].role = "tool"

\* whether request r took the step: its locals changed
Stepped(r) == [req'[r] EXCEPT !.contextData = NoObj] # [req[r] EXCEPT !.contextData = NoObj]

\* C34: a step of a request leaves every registered session it does not name as it was,
\* history and lastAccessedAt, and so does the passing of time; the sessions are
\* registered for good.
C34_OtherSessionsUntouched ==
    [][\A t \in DOMAIN contexts :
          (\A r \in Reqs : Stepped(r) => req'[r].taskId # t) =>
              /\ t \in DOMAIN contexts'
              /\ heap'[contexts'[t]] = heap[contexts[t]]]_vars

\* the first request of llm-tools went through its fold, its tool exchange and its save
\* at a later time than the one at which the second request, still in progress, replaced
\* the system message of the other session, whose timestamp is still that time
C34_Witness ==
    /\ service = "tools"
    /\ req[ReqOrder[1]].pc = "done" /\ req[ReqOrder[1]].taskId = TaskOrder[1]
    /\ req[ReqOrder[2]].pc \notin {"idle", "done"} /\ req[ReqOrder[2]].taskId = TaskOrder[2]
    /\ TaskIds \subseteq DOMAIN contexts
    /\ Len(History(TaskOrder[1])) = 5
    /\ History(TaskOrder[1])[1] = DefaultSystemMessage
    /\ History(TaskOrder[2]) = <<Message("system", <<"P1">>), Message("user", <<"v">>)>>
    /\ heap[contexts[TaskOrder[2]]].lastAccessedAt < heap[contexts[TaskOrder[1]]].lastAccessedAt

\* C35: in llm-rag, when the second request supplied its own system message for the
\* session while the first request was waiting for its enhancement, the step that ends
\* that wait leaves at index 0 the content the second request supplied, possibly
\* followed by retrieved-documents blocks: never an enhancement of the older message.
C35_SuppliedSystemMessageSurvives ==
    [][\A similarity \in Similarities, failed \in BOOLEAN :
          LET A == ReqOrder[1]
              B == ReqOrder[2]
              supplied == req[B].event.messages
          IN  (/\ EnhanceDone(A, similarity, failed)
               /\ req[B].taskId = req[A].taskId
               /\ supplied # << >> /\ supplied[1].role = "system"
               /\ req[A].originalSystemMsg.content # supplied[1].content) =>
                  SubSeq(SystemMessageAfter(A).content, 1, Len(supplied[1].content)) = supplied[1].content]_vars

-----------------------------------------------------------------------------
(* The tool exchange in the stored history *)

\* C36: in llm-tools every tool-result message of a registered session comes right after
\* the assistant message that carries the invocation it names.
C36_ToolResultFollowsItsCall ==
    service = "tools" =>
        \A t \in DOMAIN contexts : \A i \in DOMAIN History(t) :
            History(t)[i].role = "tool" =>
                /\ i > 1
                /\ History(t)[i - 1].role = "assistant"
                /\ "tool_calls" \in DOMAIN History(t)[i - 1]
                /\ \E k \in DOMAIN History(t)[i - 1].tool_calls :
                       History(t)[i - 1].tool_calls[k].id = History(t)[i].tool_call_id

\* C37: in llm-tools, a request with a task id whose provider calls did not fail and whose
\* client stayed connected, and that wrote content frames before the sentinel, has
\* stored the content written as an assistant message, the last of the session, whether
\* or not invocation fragments were read.
C37_ToolsStoresWhatItWrote ==
    \A r \in Reqs :
        (service = "tools" /\ C27_Case(r) /\ WrittenContent(req[r].sse.frames) # << >>) =>
            Last(History(req[r].taskId)) = Message("assistant", WrittenContent(req[r].sse.frames))

\* the titles of the documents the enhancement of request r kept: the enhancement ran when
\* a user query was found, and it replaced the system message it read only when it kept
\* documents
OwnSources(r) ==
    IF Truthy(req[r].userQuery) /\ History(req[r].taskId)[1] # req[r].originalSystemMsg
    THEN Sources(History(req[r].taskId)[1])
    ELSE << >>
\* the contents of the frames written that start with the references header
ReferencesWritten(frames) ==
    SelectSeq([i \in DOMAIN frames |-> IF frames[i].kind = "data" THEN frames[i].chunk.content ELSE << >>],
              LAMBDA c : c # << >> /\ c[1] = "References")
\* whether a content ends with the given suffix
EndsWith(content, suffix) ==
    /\ Len(content) >= Len(suffix)
    /\ SubSeq(content, Len(content) - Len(suffix) + 1, Len(content)) = suffix

\* C38: in llm-rag, a request with a task id that ended at the end of the stream, the
\* client connected, wrote a references suffix and stored it at the end of the assistant
\* text exactly when its own enhancement kept documents, and the suffix lists the titles
\* of those documents; otherwise no references are written or stored.
C38_ReferencesAreTheRequestsOwn ==
    \A r \in Reqs :
        (service = "rag" /\ C27_Case(r)) =>
            LET own == OwnSources(r)
                last == Last(History(req[r].taskId))
            IN  IF own = << >>
                THEN /\ ReferencesWritten(req[r].sse.frames) = << >>
                     /\ last.role = "assistant" => \A i \in DOMAIN last.content : last.content[i] # "References"
                ELSE /\ ReferencesWritten(req[r].sse.frames) = <<SourcesText(own)>>
                     /\ last.role = "assistant" /\ EndsWith(last.content, SourcesText(own))

\* the content delta whose send request r skipped on finding the channel closed, when r
\* is about to run the save that follows the loop it broke out of
Skipped(r) ==
    IF req[r].pc = "leaveFollowUp" THEN Last(req[r].followUp).content ELSE Last(req[r].primary).content
\* request r, given a task id, broke out of a relay loop on finding the channel closed and
\* now runs the save that follows that loop
SavesAfterBreak(r) ==
    /\ req[r].taskId # NoTaskId
    /\ \/ req[r].pc = "leaveFollowUp" /\ FollowUpEnd(r)
       \/ req[r].pc = "leave" /\ ~req[r].error /\ CallsOfKind(r, "followUp") = << >> /\ LeaveLoop(r)

\* C39: when a request with a task id leaves a relay loop because the client closed the
\* channel, the save that follows leaves as last message of the session the assistant
\* message whose content is the content of the frames the client was sent followed by
\* the one delta whose send was skipped, and nothing else.
C39_DisconnectStoresSentPlusSkipped ==
    [][\A r \in Reqs :
          SavesAfterBreak(r) =>
              Last(History(req[r].taskId))' = Message("assistant", WrittenContent(req[r].sse.frames) \o Skipped(r))]_vars

====
